---------------------------- MODULE Spec2Model ----------------------------
(***************************************************************************)
(* A model of the storage core of leveldb (TitenWang/leveldb-comment):     *)
(* the sharded LRU cache (util/cache.cc), the write-ahead log writer and   *)
(* reader (db/log_writer.cc, db/log_reader.cc), the skip list and the      *)
(* memtable (db/skiplist.h, db/memtable.cc) and the table builder and      *)
(* reader (table/*.cc).  Each subsystem has its own specification over     *)
(* its own variables; the variables of the other subsystems stay in their  *)
(* constructed state.                                                      *)
(***************************************************************************)
EXTENDS Integers, Sequences, FiniteSets, TLC

VARIABLES
  heap,      \* the LRUHandle objects ever malloc'ed, by handle (address)
  shard_,    \* ShardedLRUCache::shard_[kNumShards], each an LRUCache
  held,      \* per entry: the handles clients obtained and have not released yet
  prune_s    \* loop index s of the running ShardedLRUCache::Prune, -1 when none runs

cacheVars == <<heap, shard_, held, prune_s>>

VARIABLES
  log_w,        \* log::Writer and the file it appends to: [dest_, block_offset_]
  log_written,  \* the payloads given to AddRecord so far
  log_damage,   \* what was done to the file after writing: "none" or a flipped byte
  log_r,        \* log::Reader, once constructed on the file
  log_out       \* what ReadRecord returned so far: the records, and the calls that returned false

logVars == <<log_w, log_written, log_damage, log_r, log_out>>

VARIABLES
  skip,         \* a SkipList<Key, Comparator> over integer keys: [compare_, node, max_height_]
  skip_ins,     \* the writer inside Insert: its locals and the statement it is at
  skip_rd       \* a reader inside Contains or an iteration: its locals

skipVars == <<skip, skip_ins, skip_rd>>

VARIABLES
  mem,          \* a MemTable: [table_]
  mem_added,    \* the arguments of the Add calls so far
  mem_got       \* the last Get since the last Add: its arguments and outcome

memVars == <<mem, mem_added, mem_got>>

VARIABLES
  tb,            \* the TableBuilder::Rep, its file included
  tb_added,      \* the (key, value) pairs given to TableBuilder::Add, in order
  tb_blocks,     \* the data blocks written: handle and entries added until then
  tbl,           \* the Table::Rep of the table opened on the finished file
  tbl_got,       \* the last Table::InternalGet: its key, status and saver calls
  tbl_damage     \* what was done to the file of the open table: "none" or a flipped byte
tableVars == <<tb, tb_added, tb_blocks, tbl, tbl_got, tbl_damage>>

VARIABLES
  bb             \* a BlockBuilder on its own, its restart interval and the pairs added

VARIABLES
  lru            \* one LRUCache shard used by a single client, and what the client did

VARIABLES
  lw             \* a log::Writer seen by the lengths of what it writes

VARIABLES
  ft             \* a Footer, the bytes it was encoded to and what they decode to

VARIABLES
  ik             \* two internal keys and what Compare returned for them

VARIABLES
  tl             \* a TwoLevelIterator, the operation done last and the keys a scan visited

VARIABLES
  fb             \* a FilterBlockBuilder and the StartBlock calls made on it

VARIABLES
  frd             \* a filter block as read, and the KeyMayMatch call made on it

VARIABLES
  wb             \* a TableBuilder::Rep and the WriteBlock call made on it

VARIABLES
  rb             \* a file with one block in it and the ReadBlock call made on it

VARIABLES
  rr             \* a log file, the Reader on it and the ReadRecord call in progress

unitVars == <<bb, lru, lw, ft, ik, tl, fb, frd, wb, rb, rr>>

vars == <<cacheVars, logVars, skipVars, memVars, tableVars, unitVars>>

\* what an operation of one subsystem leaves alone
notCache == <<logVars, skipVars, memVars, tableVars, unitVars>>
notLog == <<cacheVars, skipVars, memVars, tableVars, unitVars>>
notSkip == <<cacheVars, logVars, memVars, tableVars, unitVars>>
notMem == <<cacheVars, logVars, skipVars, tableVars, unitVars>>
notTable == <<cacheVars, logVars, skipVars, memVars, unitVars>>
notUnit == <<cacheVars, logVars, skipVars, memVars, tableVars>>
notBlock == <<notUnit, lru, lw, ft, ik, tl, fb, frd, wb, rb, rr>>
notLru == <<notUnit, bb, lw, ft, ik, tl, fb, frd, wb, rb, rr>>
notLengths == <<notUnit, bb, lru, ft, ik, tl, fb, frd, wb, rb, rr>>
notFooter == <<notUnit, bb, lru, lw, ik, tl, fb, frd, wb, rb, rr>>
notCompare == <<notUnit, bb, lru, lw, ft, tl, fb, frd, wb, rb, rr>>
notTwoLevel == <<notUnit, bb, lru, lw, ft, ik, fb, frd, wb, rb, rr>>
notFilter == <<notUnit, bb, lru, lw, ft, ik, tl, frd, wb, rb, rr>>
notFilterRead == <<notUnit, bb, lru, lw, ft, ik, tl, fb, wb, rb, rr>>
notWriteBlock == <<notUnit, bb, lru, lw, ft, ik, tl, fb, frd, rb, rr>>
notReadBlock == <<notUnit, bb, lru, lw, ft, ik, tl, fb, frd, wb, rr>>
notReadSteps == <<notUnit, bb, lru, lw, ft, ik, tl, fb, frd, wb, rb>>

(***************************************************************************)
(* Generic helpers                                                         *)
(***************************************************************************)
NULL == 0

RECURSIVE SeqSum(_)
SeqSum(s) == IF s = <<>> THEN 0 ELSE Head(s) + SeqSum(Tail(s))

RECURSIVE SetSum(_, _)
\* sum of f[x] over the finite set S
SetSum(f, S) ==
  IF S = {} THEN 0
  ELSE LET x == CHOOSE y \in S : TRUE IN f[x] + SetSum(f, S \ {x})

SeqWithout(s, e) == SelectSeq(s, LAMBDA x : x # e)

SeqRemoveAt(s, i) == SubSeq(s, 1, i - 1) \o SubSeq(s, i + 1, Len(s))

RECURSIVE SeqReverse(_)
SeqReverse(s) == IF s = <<>> THEN <<>> ELSE Append(SeqReverse(Tail(s)), Head(s))

(***************************************************************************)
(* Sharded LRU cache: util/cache.cc                                        *)
(***************************************************************************)
\* bounds of the cache model
CacheKeys == {1, 2, 3, 4}
MaxHandles == 3      \* Insert calls (mallocs) in one behaviour
MaxHeld == 2         \* unreleased handles held by clients at a time
CacheCapacity == 32  \* the capacity given to NewLRUCache (0 is tried as well)

kNumShardBits == 4
kNumShards == 2 ^ kNumShardBits

Handles == 1 .. MaxHandles
Charges == {1, 2}

\* Hash(s.data(), s.size(), 0) of util/hash.cc: a fixed 32-bit value per key.
\* Every third key falls into shard 0, the others into shard 1, and all of them
\* collide in slot 1 of a 4-slot hash table.  (TLC's integers are 32-bit
\* signed, so the modelled hashes keep their top bit clear.)
HashSlice(k) == (IF k % 3 = 0 THEN 0 ELSE 2 ^ 28) + 4 * k + 1

Shard(hash) == hash \div (2 ^ (32 - kNumShardBits))

\* an LRUHandle that was never allocated
NoHandle ==
  [st |-> "none", key |-> 0, value |-> 0, charge |-> 0, in_cache |-> FALSE,
   refs |-> 0, hash |-> 0, deleted |-> 0]

---------------------------------------------------------------------------
\* HandleTable: [length_, elems_, list_], list_[i] the chain of slot i, head first

\* The chain position that matches key/hash, or the trailing position
FindPointer(hp, t, key, hash) ==
  LET slot == hash % t.length_     \* hash & (length_ - 1), length_ a power of two
      chain == t.list_[slot]
      hits == {i \in 1 .. Len(chain) :
                 hp[chain[i]].hash = hash /\ hp[chain[i]].key = key}
  IN [slot |-> slot,
      idx |-> IF hits = {} THEN Len(chain) + 1
              ELSE CHOOSE i \in hits : \A j \in hits : i <= j]

RECURSIVE ResizeLength(_, _)
ResizeLength(new_length, elems) ==
  IF new_length < elems THEN ResizeLength(new_length * 2, elems) ELSE new_length

\* Resize: every entry is pushed on the front of its new chain, slot by slot
Resize(hp, t) ==
  LET new_length == ResizeLength(4, t.elems_)
      RECURSIVE Flat(_)
      Flat(i) == IF i >= t.length_ THEN <<>> ELSE t.list_[i] \o Flat(i + 1)
      all == Flat(0)
  IN [length_ |-> new_length,
      elems_ |-> t.elems_,
      list_ |-> [j \in 0 .. new_length - 1 |->
                   SeqReverse(SelectSeq(all, LAMBDA h : hp[h].hash % new_length = j))]]

\* HandleTable(): length_(0), elems_(0), list_(NULL) { Resize(); }
NewHandleTable ==
  Resize([h \in {} |-> NoHandle], [length_ |-> 0, elems_ |-> 0, list_ |-> <<>>])

HandleTable_Lookup(hp, t, key, hash) ==
  LET p == FindPointer(hp, t, key, hash)
      chain == t.list_[p.slot]
  IN IF p.idx > Len(chain) THEN NULL ELSE chain[p.idx]

HandleTable_InsertNoReplace(hp, t, h) ==
  LET p == FindPointer(hp, t, hp[h].key, hp[h].hash)
      chain == t.list_[p.slot]
      t1 == [t EXCEPT !.list_[p.slot] = Append(chain, h), !.elems_ = @ + 1]
  IN [table |-> IF t1.elems_ > t1.length_ THEN Resize(hp, t1) ELSE t1, old |-> NULL]

\* returns the new table and the replaced entry (NULL when none)
HandleTable_Insert(hp, t, h) ==
  LET p == FindPointer(hp, t, hp[h].key, hp[h].hash)
      chain == t.list_[p.slot]
      old == IF p.idx > Len(chain) THEN NULL ELSE chain[p.idx]
      chain1 == IF old = NULL THEN Append(chain, h) ELSE [chain EXCEPT ![p.idx] = h]
      t1 == [t EXCEPT !.list_[p.slot] = chain1]
      t2 == IF old = NULL THEN [t1 EXCEPT !.elems_ = @ + 1] ELSE t1
      t3 == IF old = NULL /\ t2.elems_ > t2.length_ THEN Resize(hp, t2) ELSE t2
  IN [table |-> t3, old |-> old]

\* returns the new table and the removed entry (NULL when none)
HandleTable_Remove(hp, t, key, hash) ==
  LET p == FindPointer(hp, t, key, hash)
      chain == t.list_[p.slot]
      result == IF p.idx > Len(chain) THEN NULL ELSE chain[p.idx]
  IN [table |-> IF result = NULL THEN t
                ELSE [t EXCEPT !.list_[p.slot] = SeqRemoveAt(chain, p.idx),
                               !.elems_ = @ - 1],
      result |-> result]

---------------------------------------------------------------------------
\* LRUCache: the methods act on c = [hp |-> the heap, sh |-> this shard];
\* lru_ and in_use_ are the two circular lists, oldest entry first.

NewLRUCache_Shard(per_shard) ==
  [capacity_ |-> per_shard, usage_ |-> 0, lru_ |-> <<>>, in_use_ |-> <<>>,
   table_ |-> NewHandleTable]

LRU_RemoveFromLru(c, e) == [c EXCEPT !.sh.lru_ = SeqWithout(@, e)]

LRU_Remove(c, e) ==
  [c EXCEPT !.sh.lru_ = SeqWithout(@, e), !.sh.in_use_ = SeqWithout(@, e)]

LRU_Prepend(c, list, e) == [c EXCEPT !.sh[list] = <<e>> \o @]

\* list is "lru_" or "in_use_"; e becomes its newest entry
LRU_Append(c, list, e) == [c EXCEPT !.sh[list] = Append(@, e)]

RefNoMove(c, e) == [c EXCEPT !.hp[e].refs = @ + 1]

RefNoCount(c, e) ==
  IF c.hp[e].refs = 1 /\ c.hp[e].in_cache
  THEN LRU_Append(LRU_Remove(c, e), "in_use_", e)
  ELSE c

Ref(c, e) ==
  LET c1 == IF c.hp[e].refs = 1 /\ c.hp[e].in_cache
            THEN LRU_Append(LRU_Remove(c, e), "in_use_", e)
            ELSE c
  IN [c1 EXCEPT !.hp[e].refs = @ + 1]

UnrefLeak(c, e) ==
  LET refs == c.hp[e].refs - 1
      c1 == [c EXCEPT !.hp[e].refs = refs]
  IN IF refs # 0 /\ c1.hp[e].in_cache /\ refs = 1
     THEN LRU_Append(LRU_Remove(c1, e), "lru_", e)
     ELSE c1

UnrefNoMove(c, e) ==
  LET refs == c.hp[e].refs - 1
      c1 == [c EXCEPT !.hp[e].refs = refs]
  IN IF refs = 0
     THEN [c1 EXCEPT !.hp[e] = [NoHandle EXCEPT !.st = "freed", !.key = c.hp[e].key,
                                                !.deleted = c.hp[e].deleted + 1]]
     ELSE c1

Unref(c, e) ==
  LET refs == c.hp[e].refs - 1
      c1 == [c EXCEPT !.hp[e].refs = refs]
  IN IF refs = 0
     THEN \* (*e->deleter)(e->key(), e->value); free(e);
          \* the freed memory keeps no contents: only the key is remembered
          [c1 EXCEPT !.hp[e] = [NoHandle EXCEPT !.st = "freed", !.key = c.hp[e].key,
                                                !.deleted = c.hp[e].deleted + 1]]
     ELSE IF c1.hp[e].in_cache /\ refs = 1
          THEN LRU_Append(LRU_Remove(c1, e), "lru_", e)
          ELSE c1

FinishEraseKeepUsage(c, e) ==
  IF e # NULL
  THEN Unref([LRU_Remove(c, e) EXCEPT !.hp[e].in_cache = FALSE], e)
  ELSE c

FinishErase(c, e) ==
  IF e # NULL
  THEN Unref([LRU_Remove(c, e) EXCEPT !.hp[e].in_cache = FALSE,
                                      !.sh.usage_ = @ - c.hp[e].charge], e)
  ELSE c

LRUCache_Lookup(c, key, hash) ==
  LET e == HandleTable_Lookup(c.hp, c.sh.table_, key, hash)
  IN [c |-> IF e # NULL THEN Ref(c, e) ELSE c, handle |-> e]

LRUCache_Release(c, handle) == Unref(c, handle)

\* FinishErase(table_.Remove(key, hash))
EraseKey(c, key, hash) ==
  LET r == HandleTable_Remove(c.hp, c.sh.table_, key, hash)
  IN FinishErase([c EXCEPT !.sh.table_ = r.table], r.result)

RECURSIVE EvictNewest(_)
EvictNewest(c) ==
  IF c.sh.usage_ > c.sh.capacity_ /\ c.sh.lru_ # <<>>
  THEN LET old == c.sh.lru_[Len(c.sh.lru_)]
       IN EvictNewest(EraseKey(c, c.hp[old].key, c.hp[old].hash))
  ELSE c

RECURSIVE EvictLoop(_)
\* while (usage_ > capacity_ && lru_.next != &lru_)
EvictLoop(c) ==
  IF c.sh.usage_ > c.sh.capacity_ /\ c.sh.lru_ # <<>>
  THEN LET old == Head(c.sh.lru_)
       IN EvictLoop(EraseKey(c, c.hp[old].key, c.hp[old].hash))
  ELSE c

LRUCache_InsertAlways(c, e, key, hash, value, charge) ==
  LET c0 == [c EXCEPT !.hp[e] =
               [st |-> "live", key |-> key, value |-> value, charge |-> charge,
                in_cache |-> TRUE, refs |-> 2, hash |-> hash, deleted |-> 0]]
      c3 == [LRU_Append(c0, "in_use_", e) EXCEPT !.sh.usage_ = @ + charge]
      r == HandleTable_Insert(c3.hp, c3.sh.table_, e)
  IN EvictLoop(FinishErase([c3 EXCEPT !.sh.table_ = r.table], r.old))

\* e is the address malloc returns; the value is a pointer to a fresh object
\* of the client, named by e as well
LRUCache_Insert(c, e, key, hash, value, charge) ==
  LET c0 == [c EXCEPT !.hp[e] =
               [st |-> "live", key |-> key, value |-> value, charge |-> charge,
                in_cache |-> FALSE, refs |-> 1, hash |-> hash, deleted |-> 0]]
      c1 == IF c0.sh.capacity_ > 0
            THEN LET c2 == LRU_Append([c0 EXCEPT !.hp[e].refs = @ + 1,
                                                 !.hp[e].in_cache = TRUE],
                                      "in_use_", e)
                     c3 == [c2 EXCEPT !.sh.usage_ = @ + charge]
                     r == HandleTable_Insert(c3.hp, c3.sh.table_, e)
                 IN FinishErase([c3 EXCEPT !.sh.table_ = r.table], r.old)
            ELSE c0
  IN EvictLoop(c1)

LRUCache_EraseFromTable(c, key, hash) ==
  [c EXCEPT !.sh.table_ = HandleTable_Remove(c.hp, c.sh.table_, key, hash).table]

LRUCache_Erase(c, key, hash) == EraseKey(c, key, hash)

RECURSIVE LRUCache_Prune(_)
LRUCache_Prune(c) ==
  IF c.sh.lru_ # <<>>
  THEN LET e == Head(c.sh.lru_)
       IN LRUCache_Prune(EraseKey(c, c.hp[e].key, c.hp[e].hash))
  ELSE c

LRUCache_TotalCharge(sh) == sh.usage_

---------------------------------------------------------------------------
\* ShardedLRUCache and its clients

\* explicit ShardedLRUCache(size_t capacity)
NewCache(capacity) ==
  /\ heap = [h \in Handles |-> NoHandle]
  /\ LET per_shard == (capacity + (kNumShards - 1)) \div kNumShards
     IN shard_ = [s \in 0 .. kNumShards - 1 |-> NewLRUCache_Shard(per_shard)]
  /\ held = [h \in Handles |-> 0]
  /\ prune_s = -1

CacheInit == \E capacity \in {0, CacheCapacity} : NewCache(capacity)

NumHeld == SetSum(held, Handles)

\* the next address malloc hands out
Malloc ==
  CHOOSE h \in Handles : heap[h].st = "none" /\ \A g \in 1 .. h - 1 : heap[g].st # "none"

OnShard(s) == [hp |-> heap, sh |-> shard_[s]]

Commit(s, c) ==
  /\ heap' = c.hp
  /\ shard_' = [shard_ EXCEPT ![s] = c.sh]

\* Every method below runs under the mutex of the one shard it touches, so a
\* call by any thread is one atomic step, and which thread holds a handle
\* does not matter: held counts the unreleased handles of all clients.

CacheInsert(key, charge) ==
  /\ \E h \in Handles : heap[h].st = "none"
  /\ NumHeld < MaxHeld
  /\ LET hash == HashSlice(key)
         e == Malloc
     IN /\ Commit(Shard(hash),
                  LRUCache_Insert(OnShard(Shard(hash)), e, key, hash, e, charge))
        /\ held' = [held EXCEPT ![e] = @ + 1]
  /\ UNCHANGED <<prune_s, notCache>>

CacheLookup(key) ==
  /\ NumHeld < MaxHeld
  /\ LET hash == HashSlice(key)
         r == LRUCache_Lookup(OnShard(Shard(hash)), key, hash)
     IN /\ Commit(Shard(hash), r.c)
        /\ held' = IF r.handle = NULL THEN held ELSE [held EXCEPT ![r.handle] = @ + 1]
  /\ UNCHANGED <<prune_s, notCache>>

\* a client releases a handle it holds
CacheRelease(h) ==
  /\ held[h] > 0
  /\ Commit(Shard(heap[h].hash), LRUCache_Release(OnShard(Shard(heap[h].hash)), h))
  /\ held' = [held EXCEPT ![h] = @ - 1]
  /\ UNCHANGED <<prune_s, notCache>>

CacheErase(key) ==
  /\ LET hash == HashSlice(key)
     IN Commit(Shard(hash), LRUCache_Erase(OnShard(Shard(hash)), key, hash))
  /\ UNCHANGED <<held, prune_s, notCache>>

\* ShardedLRUCache::Prune: for (s = 0; s < kNumShards; s++) shard_[s].Prune();
\* each shard is pruned under its own mutex, the other operations interleave
\* between two shards.  One Prune call runs at a time.
CachePruneBegin ==
  /\ prune_s = -1
  /\ prune_s' = 0
  /\ UNCHANGED <<heap, shard_, held, notCache>>

\* the shards some key of the model hashes to; the other shards stay empty
UsedShards == {Shard(HashSlice(k)) : k \in CacheKeys}

\* the shard after s at which the loop can meet an entry, kNumShards if none
NextUsedShard(s) ==
  IF \E u \in UsedShards : u > s
  THEN CHOOSE u \in UsedShards : u > s /\ \A w \in UsedShards : w > s => u <= w
  ELSE kNumShards

RECURSIVE PruneRange(_, _, _, _)
\* shard_[s].Prune() for s in from .. to - 1, on [hp, sh] with sh all the shards
PruneRange(hp, sh, from, to) ==
  IF from >= to THEN [hp |-> hp, sh |-> sh]
  ELSE LET c == LRUCache_Prune([hp |-> hp, sh |-> sh[from]])
       IN PruneRange(c.hp, [sh EXCEPT ![from] = c.sh], from + 1, to)

\* The iterations from shard prune_s up to the next shard that can hold an
\* entry: the iterations on the never used shards in between find an empty
\* lru_ list and change nothing, so they are taken in the same step.
CachePruneShard ==
  /\ prune_s >= 0
  /\ LET next == NextUsedShard(prune_s)
         r == PruneRange(heap, shard_, prune_s, next)
     IN /\ heap' = r.hp
        /\ shard_' = r.sh
        /\ prune_s' = IF next < kNumShards THEN next ELSE -1
  /\ UNCHANGED <<held, notCache>>

CacheNext ==
  \/ \E k \in CacheKeys, ch \in Charges : CacheInsert(k, ch)
  \/ \E k \in CacheKeys : CacheLookup(k)
  \/ \E h \in Handles : CacheRelease(h)
  \/ \E k \in CacheKeys : CacheErase(k)
  \/ CachePruneBegin
  \/ CachePruneShard

\* size_t TotalCharge() const
TotalCharge == SeqSum([i \in 1 .. kNumShards |-> LRUCache_TotalCharge(shard_[i - 1])])

---------------------------------------------------------------------------
\* Properties of the cache

InCache(s) ==
  {h \in Handles : heap[h].st = "live" /\ heap[h].in_cache /\ Shard(heap[h].hash) = s}

ChargeOf == [h \in Handles |-> heap[h].charge]

\* C1: an entry on which a client holds an unreleased handle (from Insert or
\* Lookup) is allocated and was never passed to its deleter, whatever was done
\* to it meanwhile (capacity eviction, Erase, Prune, Insert of the same key).
C1_HeldEntryNeverFreed ==
  \A h \in Handles : held[h] > 0 => heap[h].st = "live" /\ heap[h].deleted = 0

\* a client still holds an entry that was erased or replaced, while another
\* entry has been freed
C1_Witness ==
  /\ \E h \in Handles : held[h] > 0 /\ heap[h].st = "live" /\ ~heap[h].in_cache
                        /\ shard_[Shard(heap[h].hash)].capacity_ > 0
  /\ \E g \in Handles : heap[g].st = "freed"

\* the step is an Insert: an LRUHandle is allocated
CacheInsertStep(e) == heap[e].st = "none" /\ heap'[e].st = "live"

\* the step prunes one shard
CachePruneStep == prune_s >= 0 /\ prune_s' # prune_s

\* C9: an entry that leaves the cache in a Prune step, or in an Insert of
\* another key (capacity eviction), had reference count exactly 1 and no
\* unreleased client handle.
C9_EvictionOnlyUnreferenced ==
  [][\A h \in Handles :
       ( /\ heap[h].st = "live" /\ heap[h].in_cache
         /\ ~(heap'[h].st = "live" /\ heap'[h].in_cache)
         /\ \/ CachePruneStep
            \/ \E e \in Handles : CacheInsertStep(e) /\ heap'[e].key # heap[h].key )
       => heap[h].refs = 1 /\ held[h] = 0]_vars

\* a shard is over its capacity although an entry was evicted from it: the
\* entries left are all referenced by clients
C9_Witness ==
  \E s \in 0 .. kNumShards - 1 :
    /\ shard_[s].capacity_ > 0
    /\ shard_[s].usage_ > shard_[s].capacity_
    /\ shard_[s].lru_ = <<>>
    /\ \A h \in InCache(s) : held[h] > 0 /\ heap[h].refs >= 2
    /\ \E g \in Handles : heap[g].st = "freed"

\* C10: each shard's usage_, and TotalCharge, is the sum of the charges of
\* the entries that are in that shard's cache (in_cache true).
C10_UsageIsChargeInCache ==
  /\ \A s \in 0 .. kNumShards - 1 : shard_[s].usage_ = SetSum(ChargeOf, InCache(s))
  /\ TotalCharge = SetSum(ChargeOf, {h \in Handles : heap[h].st = "live" /\ heap[h].in_cache})

\* an erased or replaced entry is still referenced and is not counted
C10_Witness ==
  /\ TotalCharge > 0
  /\ \E h \in Handles : heap[h].st = "live" /\ ~heap[h].in_cache /\ heap[h].charge > 0
                        /\ held[h] > 0

\* the entries stored in a hash table
EntriesOf(t) ==
  UNION {{t.list_[i][j] : j \in 1 .. Len(t.list_[i])} : i \in 0 .. t.length_ - 1}

\* the entries stored in the hash table of shard s, and their number
TableEntries(s) == EntriesOf(shard_[s].table_)

TableSize(s) ==
  SeqSum([i \in 1 .. shard_[s].table_.length_ |-> Len(shard_[s].table_.list_[i - 1])])

\* how often e is on the list
Count(list, e) == Cardinality({i \in 1 .. Len(list) : list[i] = e})

\* C21: in every shard the number of entries on in_use_ plus the number of
\* entries on lru_ is at most the number of entries stored in the hash table
\* (the chains hold elems_ entries), and every entry on a list is in the table.
C21_ListedEntriesInTable ==
  \A s \in 0 .. kNumShards - 1 :
    /\ Len(shard_[s].in_use_) + Len(shard_[s].lru_) <= TableSize(s)
    /\ TableSize(s) = shard_[s].table_.elems_
    /\ \A i \in 1 .. Len(shard_[s].in_use_) : shard_[s].in_use_[i] \in TableEntries(s)
    /\ \A i \in 1 .. Len(shard_[s].lru_) : shard_[s].lru_[i] \in TableEntries(s)

\* a shard with an entry on each list, after an entry that a client still
\* holds was taken out of its table
C21_Witness ==
  \E s \in 0 .. kNumShards - 1 :
    /\ shard_[s].in_use_ # <<>> /\ shard_[s].lru_ # <<>>
    /\ TableSize(s) = 2
    /\ \E h \in Handles : /\ heap[h].st = "live" /\ ~heap[h].in_cache
                           /\ Shard(heap[h].hash) = s /\ held[h] > 0

\* C23: each entry with in_cache true is in the hash table of its shard and
\* on exactly one of the two lists, on lru_ exactly when refs == 1 and on
\* in_use_ exactly when refs >= 2; each allocated entry with in_cache false
\* is on neither list and not in the hash table.
C23_ListsFollowRefs ==
  \A h \in Handles : heap[h].st = "live" =>
    LET s == Shard(heap[h].hash)
    IN IF heap[h].in_cache
       THEN /\ h \in TableEntries(s)
            /\ HandleTable_Lookup(heap, shard_[s].table_, heap[h].key, heap[h].hash) = h
            /\ Count(shard_[s].lru_, h) + Count(shard_[s].in_use_, h) = 1
            /\ Count(shard_[s].lru_, h) = 1 <=> heap[h].refs = 1
            /\ Count(shard_[s].in_use_, h) = 1 <=> heap[h].refs >= 2
       ELSE \A t \in 0 .. kNumShards - 1 :
              /\ Count(shard_[t].lru_, h) = 0 /\ Count(shard_[t].in_use_, h) = 0
              /\ h \notin TableEntries(t)

\* one entry on lru_, one on in_use_ held twice, and one out of the cache
\* that a client still holds
C23_Witness ==
  \E h, g, e \in Handles :
    /\ heap[h].st = "live" /\ heap[h].in_cache /\ heap[h].refs = 1
    /\ heap[g].st = "live" /\ heap[g].in_cache /\ heap[g].refs = 2
    /\ heap[e].st = "live" /\ ~heap[e].in_cache /\ heap[e].refs = 1
    /\ shard_[Shard(heap[e].hash)].capacity_ > 0

\* C24: for every entry ever inserted the deleter is invoked at most once,
\* never while the entry is in the cache or a client handle on it is
\* unreleased, and exactly at the step that drops its last reference: an
\* entry that is out of the cache with all its handles released has been
\* deleted.
C24_DeleterRunsOnceAtLastUnref ==
  /\ [](\A h \in Handles : heap[h].st # "none" =>
          /\ heap[h].deleted <= 1
          /\ (heap[h].st = "live" /\ heap[h].in_cache) \/ held[h] > 0
                => heap[h].deleted = 0
          /\ ~(heap[h].st = "live" /\ heap[h].in_cache) /\ held[h] = 0
                => heap[h].st = "freed" /\ heap[h].deleted = 1)
  /\ [][\A h \in Handles : heap'[h].deleted # heap[h].deleted =>
           /\ heap[h].st = "live" /\ heap[h].refs = 1
           /\ heap'[h].st = "freed" /\ heap'[h].deleted = 1]_vars

\* two entries were deleted; a third, out of the cache, is still held and
\* was not
C24_Witness ==
  \E h, g, e \in Handles :
    /\ h # g
    /\ heap[h].st = "freed" /\ heap[h].deleted = 1
    /\ heap[g].st = "freed" /\ heap[g].deleted = 1
    /\ heap[e].st = "live" /\ ~heap[e].in_cache /\ held[e] > 0 /\ heap[e].deleted = 0

\* the entries of a list
OnList(list) == {list[i] : i \in 1 .. Len(list)}

\* C25: when Insert returns, the shard's usage_ is at most its capacity_ or
\* its lru_ list is empty, and what Insert evicted was taken from the head of
\* lru_ (what is left is the end of the list as it was, the replaced entry
\* of the same key aside).  lru_ is in the order in which its entries last
\* became unreferenced: an entry enters lru_ in the step that takes its refs
\* down to 1, as the newest, and no step reorders the entries that stay.
C25_EvictionFromLruHead ==
  [][\A s \in 0 .. kNumShards - 1 :
       LET old == shard_[s].lru_
           new == shard_'[s].lru_
           kept == OnList(old) \cap OnList(new)
           EndOf(left) == \E k \in 0 .. Len(left) : new = SubSeq(left, k + 1, Len(left))
       IN /\ \A i \in 1 .. Len(new) :
               new[i] \notin OnList(old) =>
                 /\ i = Len(new)
                 /\ heap[new[i]].refs >= 2 /\ heap'[new[i]].refs = 1
          /\ SelectSeq(old, LAMBDA h : h \in kept) = SelectSeq(new, LAMBDA h : h \in kept)
          /\ \A e \in Handles :
               (CacheInsertStep(e) /\ Shard(heap'[e].hash) = s) =>
                 /\ shard_'[s].usage_ <= shard_'[s].capacity_ \/ new = <<>>
                 /\ EndOf(SelectSeq(old, LAMBDA h : heap[h].key # heap'[e].key))]_vars

\* the older of two unreferenced entries was evicted by the Insert of a
\* third key; the newer one is still on lru_
C25_Witness ==
  \E s \in 0 .. kNumShards - 1 :
    /\ shard_[s].lru_ = <<2>> /\ shard_[s].in_use_ = <<3>>
    /\ shard_[s].usage_ = shard_[s].capacity_
    /\ heap[1].st = "freed"
    /\ heap[1].key # heap[2].key /\ heap[1].key # heap[3].key
    /\ Shard(HashSlice(heap[1].key)) = s

\* an Insert left a shard over its capacity: lru_ is empty, both entries of
\* the shard are held by clients
C25_WitnessOverCapacity ==
  \E s \in 0 .. kNumShards - 1 :
    /\ shard_[s].usage_ > shard_[s].capacity_ /\ shard_[s].capacity_ > 0
    /\ shard_[s].lru_ = <<>>
    /\ Len(shard_[s].in_use_) = 2

\* the entry of the key that is in the cache, if any (a set)
CachedAs(key) ==
  {h \in Handles : heap[h].st = "live" /\ heap[h].in_cache /\ heap[h].key = key}

\* C26: Insert of a key that is in the cache replaces the old entry:
\* afterwards Lookup of the key finds the new entry with the new value, the
\* hash table holds a single entry for the key, usage_ has dropped by the old
\* entry's charge (and grown by the new one's, less what was evicted), and
\* the old entry is deleted at once if no client holds a handle on it,
\* otherwise at the last Release of such a handle.
C26_InsertReplaces ==
  [][\A e \in Handles :
       /\ \A h \in Handles :
            (CacheInsertStep(e) /\ h \in CachedAs(heap'[e].key)) =>
              LET s == Shard(heap[h].hash)
                  key == heap[h].key
                  evicted == {g \in Handles \ {h} :
                                /\ heap[g].st = "live" /\ heap[g].in_cache
                                /\ Shard(heap[g].hash) = s
                                /\ ~(heap'[g].st = "live" /\ heap'[g].in_cache)}
              IN /\ HandleTable_Lookup(heap', shard_'[s].table_, key, heap[h].hash) = e
                 /\ heap'[e].value = e /\ heap'[e].in_cache
                 /\ {g \in EntriesOf(shard_'[s].table_) : heap'[g].key = key} = {e}
                 /\ shard_'[s].usage_ = shard_[s].usage_ - heap[h].charge
                                          + heap'[e].charge - SetSum(ChargeOf, evicted)
                 /\ IF held[h] = 0
                    THEN heap'[h].st = "freed" /\ heap'[h].deleted = 1
                    ELSE /\ heap'[h].st = "live" /\ ~heap'[h].in_cache
                         /\ heap'[h].deleted = 0 /\ heap'[h].value = h
       /\ (/\ heap[e].st = "live" /\ ~heap[e].in_cache
           /\ held[e] = 1 /\ held'[e] = 0) =>
            heap'[e].st = "freed" /\ heap'[e].deleted = 1]_vars

\* a key was inserted again while a client held the old entry: the old entry
\* is out of the cache and allocated, the new one is found by Lookup
C26_Witness ==
  \E h, e \in Handles :
    /\ h < e
    /\ heap[h].st = "live" /\ ~heap[h].in_cache /\ held[h] > 0
    /\ heap[e].st = "live" /\ heap[e].in_cache /\ heap[e].key = heap[h].key
    /\ heap[e].charge # heap[h].charge
    /\ HandleTable_Lookup(heap, shard_[Shard(heap[e].hash)].table_,
                          heap[e].key, heap[e].hash) = e

\* what Lookup(key) finds in the shards sh with the heap hp (NULL: a miss)
Found(hp, sh, key) ==
  HandleTable_Lookup(hp, sh[Shard(HashSlice(key))].table_, key, HashSlice(key))

\* the step takes the key out of the hash table and is no Insert and no Prune
CacheEraseStep(key) ==
  /\ Found(heap, shard_, key) # NULL
  /\ Found(heap', shard_', key) = NULL
  /\ ~CachePruneStep
  /\ \A e \in Handles : ~CacheInsertStep(e)

\* C27: after Erase(key), Lookup(key) misses until the key is inserted again
\* and usage_ is reduced by the erased entry's charge, while a handle
\* obtained before the Erase stays valid until it is released; Erase of a
\* key that is not in the cache changes no state.
C27_EraseRemovesKey ==
  /\ [](\A key \in CacheKeys :
          Found(heap, shard_, key) = NULL =>
            LRUCache_Erase(OnShard(Shard(HashSlice(key))), key, HashSlice(key))
              = OnShard(Shard(HashSlice(key))))
  /\ [][\A key \in CacheKeys :
           /\ CacheEraseStep(key) =>
                LET h == Found(heap, shard_, key)
                    s == Shard(HashSlice(key))
                IN /\ shard_'[s].usage_ = shard_[s].usage_ - heap[h].charge
                   /\ \A g \in Handles \ {h} : heap'[g] = heap[g]
                   /\ IF held[h] > 0
                      THEN /\ heap'[h].st = "live" /\ heap'[h].deleted = 0
                           /\ heap'[h].key = key /\ heap'[h].value = heap[h].value
                           /\ ~heap'[h].in_cache
                      ELSE heap'[h].st = "freed" /\ heap'[h].deleted = 1
           /\ (Found(heap, shard_, key) = NULL
                 /\ \A e \in Handles : ~(CacheInsertStep(e) /\ heap'[e].key = key))
                => Found(heap', shard_', key) = NULL]_vars
  /\ [][\A h \in Handles :
           (held[h] > 0 /\ held'[h] > 0) =>
             /\ heap'[h].st = "live" /\ heap'[h].value = heap[h].value]_vars

\* a key was erased while a client held its entry and was not inserted
\* again: the entry is allocated and out of the cache, Lookup misses
C27_Witness ==
  \E h \in Handles :
    /\ heap[h].st = "live" /\ ~heap[h].in_cache /\ held[h] > 0
    /\ shard_[Shard(heap[h].hash)].capacity_ > 0
    /\ Found(heap, shard_, heap[h].key) = NULL
    /\ shard_[Shard(heap[h].hash)].usage_ > 0

\* C28: in a cache whose shard capacity is 0, Insert returns a usable handle
\* but never stores the entry: every Lookup misses, the hash table and both
\* lists stay empty, usage_ stays 0, and the entry's deleter runs when the
\* handle returned by Insert is released.
C28_ZeroCapacityStoresNothing ==
  /\ [](\A s \in 0 .. kNumShards - 1 : shard_[s].capacity_ = 0 =>
          /\ shard_[s].lru_ = <<>> /\ shard_[s].in_use_ = <<>>
          /\ shard_[s].table_.elems_ = 0 /\ TableEntries(s) = {}
          /\ shard_[s].usage_ = 0
          /\ \A key \in CacheKeys : Shard(HashSlice(key)) = s =>
                Found(heap, shard_, key) = NULL
          /\ \A h \in Handles : (heap[h].st = "live" /\ Shard(heap[h].hash) = s) =>
                /\ ~heap[h].in_cache /\ heap[h].deleted = 0
                /\ held[h] = 1 /\ heap[h].refs = 1
                /\ heap[h].value = h)
  /\ [][\A e \in Handles :
           /\ (CacheInsertStep(e) /\ shard_[Shard(heap'[e].hash)].capacity_ = 0) =>
                held'[e] = 1
           /\ (/\ heap[e].st = "live" /\ shard_[Shard(heap[e].hash)].capacity_ = 0
               /\ held'[e] = 0) =>
                heap'[e].st = "freed" /\ heap'[e].deleted = 1]_vars

\* in a cache of capacity 0 one entry was inserted and released, another is
\* still held
C28_Witness ==
  /\ \A s \in 0 .. kNumShards - 1 : shard_[s].capacity_ = 0
  /\ \E h, e \in Handles :
       /\ heap[h].st = "freed" /\ heap[h].deleted = 1
       /\ heap[e].st = "live" /\ held[e] = 1 /\ heap[e].key = heap[h].key

(***************************************************************************)
(* Fixed-width coding: util/coding.cc                                      *)
(***************************************************************************)
Min(a, b) == IF a < b THEN a ELSE b

\* buf[0..3] of EncodeFixed32: least significant byte first
EncodeFixed32(value) ==
  <<value % 256, (value \div 256) % 256, (value \div 65536) % 256,
    (value \div 16777216) % 256>>

\* DecodeFixed32 (util/coding.h) of the 4 bytes at the head of buf
DecodeFixed32(buf) == buf[1] + 256 * buf[2] + 65536 * buf[3] + 16777216 * buf[4]

(***************************************************************************)
(* crc32c (util/crc32c.h, not part of the sources at hand): a checksum     *)
(* that any change of one byte changes, and its mask.  Checksums are kept  *)
(* in 30 bits so that all arithmetic stays inside TLC's integers.          *)
(***************************************************************************)
CrcBits == 30
kMaskDelta == 578939608     \* 0xa282ead8 cut to CrcBits bits

RECURSIVE CrcSum(_, _)
CrcSum(data, i) ==
  IF i > Len(data) THEN 0 ELSE i * (data[i] + 1) + CrcSum(data, i + 1)

crc32c_Value(data) == (Len(data) + CrcSum(data, 1)) % 65521

\* crc32c::Extend(crc32c::Value(a), b) == crc32c::Value(a \o b)
crc32c_Extend(a, b) == crc32c_Value(a \o b)

Rotate15(x) == (x \div 2 ^ 15) + (x % 2 ^ 15) * 2 ^ (CrcBits - 15)

\* ((crc >> 15) | (crc << 17)) + kMaskDelta
crc32c_Mask(crc) == (Rotate15(crc) + kMaskDelta) % 2 ^ CrcBits

crc32c_Unmask(masked) ==
  LET rot == (masked - kMaskDelta) % 2 ^ CrcBits
  IN (rot \div 2 ^ (CrcBits - 15)) + (rot % 2 ^ (CrcBits - 15)) * 2 ^ 15

(***************************************************************************)
(* Write-ahead log: db/log_writer.cc, db/log_reader.cc                     *)
(***************************************************************************)
\* bounds of the log model
kBlockSize == 32        \* the block size, 32768 in db/log_format.h, scaled down
MaxRecords == 3         \* AddRecord calls in one behaviour

kHeaderSize == 7
kZeroType == 0
kFullType == 1
kFirstType == 2
kMiddleType == 3
kLastType == 4
kMaxRecordType == 4
kEof == kMaxRecordType + 1
kBadRecord == kMaxRecordType + 2

\* payload lengths: empty, short, leaving exactly a header / less than a
\* header at the end of the first block, spanning three blocks
PayloadLens == {0, 1, kBlockSize - 2 * kHeaderSize, kBlockSize - 2 * kHeaderSize + 2,
                2 * kBlockSize - 4}

\* the payload of a given length: its bytes differ from place to place and
\* from length to length
Payload(len) == [i \in 1 .. len |-> ((len + i) % 5) + 1]

---------------------------------------------------------------------------
\* log::Writer on w = [dest_ |-> the bytes of the file, block_offset_]

\* Writer::Writer(WritableFile* dest)
NewWriter == [dest_ |-> <<>>, block_offset_ |-> 0]

\* the header and the payload of one physical record
PhysicalRecord(t, data) ==
  LET n == Len(data)
      crc == crc32c_Mask(crc32c_Extend(<<t>>, data))
      buf == EncodeFixed32(crc) \o <<n % 256, n \div 256, t>>
  IN buf \o data

\* a writer that forgets how far into the block it is
EmitPhysicalRecordNoAdvance(w, t, data) ==
  [dest_ |-> w.dest_ \o PhysicalRecord(t, data), block_offset_ |-> w.block_offset_]

EmitPhysicalRecord(w, t, data) ==
  [dest_ |-> w.dest_ \o PhysicalRecord(t, data),
   block_offset_ |-> w.block_offset_ + kHeaderSize + Len(data)]

RECURSIVE AddRecordLoopNoFill(_, _, _)
\* a writer that starts a new block without filling the rest of the old one
AddRecordLoopNoFill(w, left, begin) ==
  LET leftover == kBlockSize - w.block_offset_
      w1 == IF leftover < kHeaderSize
            THEN [dest_ |-> w.dest_, block_offset_ |-> 0]
            ELSE w
      avail == kBlockSize - w1.block_offset_ - kHeaderSize
      fragment_length == IF Len(left) < avail THEN Len(left) ELSE avail
      end == (Len(left) = fragment_length)
      type == IF begin /\ end THEN kFullType
              ELSE IF begin THEN kFirstType
              ELSE IF end THEN kLastType
              ELSE kMiddleType
      w2 == EmitPhysicalRecord(w1, type, SubSeq(left, 1, fragment_length))
      rest == SubSeq(left, fragment_length + 1, Len(left))
  IN IF Len(rest) > 0 THEN AddRecordLoopNoFill(w2, rest, FALSE) ELSE w2

RECURSIVE AddRecordLoop(_, _, _)
\* the do-while loop of AddRecord; left is what remains of the payload
AddRecordLoop(w, left, begin) ==
  LET leftover == kBlockSize - w.block_offset_
      w1 == IF leftover < kHeaderSize
            THEN [dest_ |-> w.dest_ \o [i \in 1 .. leftover |-> 0], block_offset_ |-> 0]
            ELSE w
      avail == kBlockSize - w1.block_offset_ - kHeaderSize
      fragment_length == IF Len(left) < avail THEN Len(left) ELSE avail
      end == (Len(left) = fragment_length)
      type == IF begin /\ end THEN kFullType
              ELSE IF begin THEN kFirstType
              ELSE IF end THEN kLastType
              ELSE kMiddleType
      w2 == EmitPhysicalRecord(w1, type, SubSeq(left, 1, fragment_length))
      rest == SubSeq(left, fragment_length + 1, Len(left))
  IN IF Len(rest) > 0 THEN AddRecordLoop(w2, rest, FALSE) ELSE w2

Writer_AddRecord(w, slice) == AddRecordLoop(w, slice, TRUE)

RECURSIVE AddRecordLengthsNoHeader(_, _, _, _)
AddRecordLengthsNoHeader(block_size, block_offset, left, begin) ==
  LET leftover == block_size - block_offset
      offset1 == IF leftover < kHeaderSize THEN 0 ELSE block_offset
      avail == block_size - offset1
      fragment_length == IF left < avail THEN left ELSE avail
      end == (left = fragment_length)
      type == IF begin /\ end THEN kFullType
              ELSE IF begin THEN kFirstType
              ELSE IF end THEN kLastType
              ELSE kMiddleType
      record == [type |-> type, length |-> fragment_length,
                 filled |-> IF leftover < kHeaderSize THEN leftover ELSE 0]
      offset2 == offset1 + kHeaderSize + fragment_length
  IN IF left - fragment_length > 0
     THEN LET rest == AddRecordLengthsNoHeader(block_size, offset2,
                                               left - fragment_length, FALSE)
          IN [records |-> <<record>> \o rest.records,
              block_offset_ |-> rest.block_offset_]
     ELSE [records |-> <<record>>, block_offset_ |-> offset2]

RECURSIVE AddRecordLengths(_, _, _, _)
\* the do-while loop of AddRecord by lengths, for blocks of block_size bytes:
\* the physical records it emits for a payload of left bytes, each with its
\* type, the length of its fragment and the number of zero bytes that filled
\* the end of the block before it, and the block_offset_ it leaves
AddRecordLengths(block_size, block_offset, left, begin) ==
  LET leftover == block_size - block_offset
      offset1 == IF leftover < kHeaderSize THEN 0 ELSE block_offset
      avail == block_size - offset1 - kHeaderSize
      fragment_length == IF left < avail THEN left ELSE avail
      end == (left = fragment_length)
      type == IF begin /\ end THEN kFullType
              ELSE IF begin THEN kFirstType
              ELSE IF end THEN kLastType
              ELSE kMiddleType
      record == [type |-> type, length |-> fragment_length,
                 filled |-> IF leftover < kHeaderSize THEN leftover ELSE 0]
      offset2 == offset1 + kHeaderSize + fragment_length
  IN IF left - fragment_length > 0
     THEN LET rest == AddRecordLengths(block_size, offset2,
                                       left - fragment_length, FALSE)
          IN [records |-> <<record>> \o rest.records,
              block_offset_ |-> rest.block_offset_]
     ELSE [records |-> <<record>>, block_offset_ |-> offset2]

---------------------------------------------------------------------------
\* log::Reader on r: its fields, the file it reads (file_, pos the read
\* position) and what it gave to the reporter (drops)

\* Reader::Reader(file, reporter, checksum, initial_offset)
NewReader(data, checksum, initial_offset) ==
  [open |-> TRUE, file_ |-> data, pos |-> 0, drops |-> <<>>,
   checksum_ |-> checksum, buffer_ |-> <<>>, eof_ |-> FALSE,
   last_record_offset_ |-> 0, end_of_buffer_offset_ |-> 0,
   initial_offset_ |-> initial_offset, resyncing_ |-> (initial_offset > 0)]

NoReader ==
  [NewReader(<<>>, FALSE, 0) EXCEPT !.open = FALSE]

\* the unsigned difference end_of_buffer_offset_ - buffer_.size() - bytes wraps
\* around below zero and is then larger than any offset
ReportDrop(r, bytes, reason) ==
  LET d == r.end_of_buffer_offset_ - Len(r.buffer_) - bytes
  IN IF d < 0 \/ d >= r.initial_offset_
     THEN [r EXCEPT !.drops = Append(@, [bytes |-> bytes, reason |-> reason])]
     ELSE r

ReportCorruption(r, bytes, reason) == ReportDrop(r, bytes, reason)

\* file_->Skip(block_start_location) succeeds
SkipToInitialBlock(r) ==
  LET offset_in_block == r.initial_offset_ % kBlockSize
      start0 == r.initial_offset_ - offset_in_block
      block_start_location ==
        IF offset_in_block > kBlockSize - 6 THEN start0 + kBlockSize ELSE start0
  IN [r EXCEPT !.end_of_buffer_offset_ = block_start_location,
               !.pos = IF block_start_location > 0
                       THEN Min(@ + block_start_location, Len(r.file_)) ELSE @]

\* a reader that trusts the length of a record whose checksum is wrong and
\* drops that record only
DropRecordOnChecksumMismatch(r, length) ==
  ReportCorruption([r EXCEPT !.buffer_ = SubSeq(@, kHeaderSize + length + 1, Len(@))],
                   kHeaderSize + length, "checksum mismatch")

\* actual_crc != expected_crc: the rest of the buffer is dropped
DropOnChecksumMismatch(r, length) ==
  ReportCorruption([r EXCEPT !.buffer_ = <<>>], Len(r.buffer_), "checksum mismatch")

\* a reader that takes every physical record of the block it starts in
StartedAnywhere(r, length) == FALSE

\* the physical record of this length just taken from buffer_ started before
\* initial_offset_
StartedBeforeInitialOffset(r, length) ==
  r.end_of_buffer_offset_ - Len(r.buffer_) - kHeaderSize - length < r.initial_offset_

RECURSIVE ReadPhysicalRecordStrictLength(_, _)
\* a reader that reports a record reaching past the end of the file
ReadPhysicalRecordStrictLength(r, prev) ==
  IF Len(r.buffer_) < kHeaderSize
  THEN IF ~r.eof_
       THEN LET n == Min(kBlockSize, Len(r.file_) - r.pos)
                data == SubSeq(r.file_, r.pos + 1, r.pos + n)
            IN ReadPhysicalRecordStrictLength(
                 [r EXCEPT !.buffer_ = data, !.pos = @ + n,
                           !.end_of_buffer_offset_ = @ + n,
                           !.eof_ = (n < kBlockSize)], prev)
       ELSE [r |-> [r EXCEPT !.buffer_ = <<>>], type |-> kEof, result |-> prev]
  ELSE
    LET header == r.buffer_
        type == header[7]
        length == header[5] + 256 * header[6]
        cleared == [r EXCEPT !.buffer_ = <<>>]
    IN IF kHeaderSize + length > Len(r.buffer_)
       THEN [r |-> ReportCorruption(cleared, Len(r.buffer_), "bad record length"),
             type |-> kBadRecord, result |-> prev]
       ELSE IF type = kZeroType /\ length = 0
       THEN [r |-> cleared, type |-> kBadRecord, result |-> prev]
       ELSE IF r.checksum_
               /\ crc32c_Value(SubSeq(header, 7, 7 + length))
                    # crc32c_Unmask(DecodeFixed32(header))
       THEN [r |-> DropOnChecksumMismatch(r, length),
             type |-> kBadRecord, result |-> prev]
       ELSE LET r1 == [r EXCEPT !.buffer_ =
                         SubSeq(@, kHeaderSize + length + 1, Len(@))]
            IN IF StartedBeforeInitialOffset(r1, length)
               THEN [r |-> r1, type |-> kBadRecord, result |-> <<>>]
               ELSE [r |-> r1, type |-> type,
                     result |-> SubSeq(header, kHeaderSize + 1, kHeaderSize + length)]

RECURSIVE ReadPhysicalRecordKeepsZeros(_, _)
\* a reader that leaves a record of type zero and length zero in buffer_
ReadPhysicalRecordKeepsZeros(r, prev) ==
  IF Len(r.buffer_) < kHeaderSize
  THEN IF ~r.eof_
       THEN \* file_->Read(kBlockSize, &buffer_, backing_store_) succeeds
            LET n == Min(kBlockSize, Len(r.file_) - r.pos)
                data == SubSeq(r.file_, r.pos + 1, r.pos + n)
            IN ReadPhysicalRecordKeepsZeros(
                 [r EXCEPT !.buffer_ = data, !.pos = @ + n,
                           !.end_of_buffer_offset_ = @ + n,
                           !.eof_ = (n < kBlockSize)], prev)
       ELSE [r |-> [r EXCEPT !.buffer_ = <<>>], type |-> kEof, result |-> prev]
  ELSE
    LET header == r.buffer_
        a == header[5]
        b == header[6]
        type == header[7]
        length == a + 256 * b
        cleared == [r EXCEPT !.buffer_ = <<>>]
    IN IF kHeaderSize + length > Len(r.buffer_)
       THEN IF ~r.eof_
            THEN [r |-> ReportCorruption(cleared, Len(r.buffer_), "bad record length"),
                  type |-> kBadRecord, result |-> prev]
            ELSE [r |-> cleared, type |-> kEof, result |-> prev]
       ELSE IF type = kZeroType /\ length = 0
       THEN [r |-> r, type |-> kBadRecord, result |-> prev]
       ELSE IF r.checksum_
               /\ crc32c_Value(SubSeq(header, 7, 7 + length))
                    # crc32c_Unmask(DecodeFixed32(header))
       THEN [r |-> DropOnChecksumMismatch(r, length),
             type |-> kBadRecord, result |-> prev]
       ELSE LET r1 == [r EXCEPT !.buffer_ =
                         SubSeq(@, kHeaderSize + length + 1, Len(@))]
            IN IF StartedBeforeInitialOffset(r1, length)
               THEN [r |-> r1, type |-> kBadRecord, result |-> <<>>]
               ELSE [r |-> r1, type |-> type,
                     result |-> SubSeq(header, kHeaderSize + 1, kHeaderSize + length)]

RECURSIVE ReadPhysicalRecord(_, _)
\* returns the reader, the record type (or kEof, kBadRecord) and *result,
\* which stays what it was (prev) when the code does not assign it
ReadPhysicalRecord(r, prev) ==
  IF Len(r.buffer_) < kHeaderSize
  THEN IF ~r.eof_
       THEN \* file_->Read(kBlockSize, &buffer_, backing_store_) succeeds
            LET n == Min(kBlockSize, Len(r.file_) - r.pos)
                data == SubSeq(r.file_, r.pos + 1, r.pos + n)
            IN ReadPhysicalRecord(
                 [r EXCEPT !.buffer_ = data, !.pos = @ + n,
                           !.end_of_buffer_offset_ = @ + n,
                           !.eof_ = (n < kBlockSize)], prev)
       ELSE [r |-> [r EXCEPT !.buffer_ = <<>>], type |-> kEof, result |-> prev]
  ELSE
    LET header == r.buffer_
        a == header[5]
        b == header[6]
        type == header[7]
        length == a + 256 * b
        cleared == [r EXCEPT !.buffer_ = <<>>]
    IN IF kHeaderSize + length > Len(r.buffer_)
       THEN IF ~r.eof_
            THEN [r |-> ReportCorruption(cleared, Len(r.buffer_), "bad record length"),
                  type |-> kBadRecord, result |-> prev]
            ELSE [r |-> cleared, type |-> kEof, result |-> prev]
       ELSE IF type = kZeroType /\ length = 0
       THEN [r |-> cleared, type |-> kBadRecord, result |-> prev]
       ELSE IF r.checksum_
               /\ crc32c_Value(SubSeq(header, 7, 7 + length))
                    # crc32c_Unmask(DecodeFixed32(header))
       THEN [r |-> DropOnChecksumMismatch(r, length),
             type |-> kBadRecord, result |-> prev]
       ELSE LET r1 == [r EXCEPT !.buffer_ =
                         SubSeq(@, kHeaderSize + length + 1, Len(@))]
            IN IF StartedBeforeInitialOffset(r1, length)
               THEN [r |-> r1, type |-> kBadRecord, result |-> <<>>]
               ELSE [r |-> r1, type |-> type,
                     result |-> SubSeq(header, kHeaderSize + 1, kHeaderSize + length)]

RECURSIVE ReadRecordLoopAlwaysReports(_, _, _, _, _)
\* a reader that reports an unfinished record of no bytes as well
ReadRecordLoopAlwaysReports(r, scratch, in_fragmented_record, prospective_record_offset, frag) ==
  LET p == ReadPhysicalRecord(r, frag)
      record_type == p.type
      fragment == p.result
      physical_record_offset ==
        p.r.end_of_buffer_offset_ - Len(p.r.buffer_) - kHeaderSize - Len(fragment)
      r1 == [p.r EXCEPT !.resyncing_ = FALSE]
  IN IF p.r.resyncing_ /\ record_type = kMiddleType
     THEN ReadRecordLoopAlwaysReports(p.r, scratch, in_fragmented_record,
                         prospective_record_offset, fragment)
     ELSE IF p.r.resyncing_ /\ record_type = kLastType
     THEN ReadRecordLoopAlwaysReports(r1, scratch, in_fragmented_record,
                         prospective_record_offset, fragment)
     ELSE
       CASE record_type = kFullType ->
              LET r2 == IF in_fragmented_record
                        THEN ReportCorruption(r1, Len(scratch), "partial record without end(1)")
                        ELSE r1
              IN [r |-> [r2 EXCEPT !.last_record_offset_ = physical_record_offset],
                  ok |-> TRUE, record |-> fragment]
         [] record_type = kFirstType ->
              LET r2 == IF in_fragmented_record
                        THEN ReportCorruption(r1, Len(scratch), "partial record without end(2)")
                        ELSE r1
              IN ReadRecordLoopAlwaysReports(r2, fragment, TRUE, physical_record_offset, fragment)
         [] record_type = kMiddleType ->
              IF ~in_fragmented_record
              THEN ReadRecordLoopAlwaysReports(
                     ReportCorruption(r1, Len(fragment), "missing start of fragmented record(1)"),
                     scratch, in_fragmented_record, prospective_record_offset, fragment)
              ELSE ReadRecordLoopAlwaysReports(r1, scratch \o fragment, in_fragmented_record,
                                  prospective_record_offset, fragment)
         [] record_type = kLastType ->
              IF ~in_fragmented_record
              THEN ReadRecordLoopAlwaysReports(
                     ReportCorruption(r1, Len(fragment), "missing start of fragmented record(2)"),
                     scratch, in_fragmented_record, prospective_record_offset, fragment)
              ELSE [r |-> [r1 EXCEPT !.last_record_offset_ = prospective_record_offset],
                    ok |-> TRUE, record |-> scratch \o fragment]
         [] record_type = kEof ->
              [r |-> r1, ok |-> FALSE, record |-> <<>>]
         [] record_type = kBadRecord ->
              IF in_fragmented_record
              THEN ReadRecordLoopAlwaysReports(ReportCorruption(r1, Len(scratch), "error in middle of record"),
                                  <<>>, FALSE, prospective_record_offset, fragment)
              ELSE ReadRecordLoopAlwaysReports(r1, scratch, in_fragmented_record,
                                  prospective_record_offset, fragment)
         [] OTHER ->
              ReadRecordLoopAlwaysReports(
                ReportCorruption(r1,
                  Len(fragment) + (IF in_fragmented_record THEN Len(scratch) ELSE 0),
                  "unknown record type"),
                <<>>, FALSE, prospective_record_offset, fragment)

RECURSIVE ReadRecordLoop(_, _, _, _, _)
\* the while (true) loop of ReadRecord with its local variables
ReadRecordLoop(r, scratch, in_fragmented_record, prospective_record_offset, frag) ==
  LET p == ReadPhysicalRecord(r, frag)
      record_type == p.type
      fragment == p.result
      physical_record_offset ==
        p.r.end_of_buffer_offset_ - Len(p.r.buffer_) - kHeaderSize - Len(fragment)
      r1 == [p.r EXCEPT !.resyncing_ = FALSE]
  IN IF p.r.resyncing_ /\ record_type = kMiddleType
     THEN ReadRecordLoop(p.r, scratch, in_fragmented_record,
                         prospective_record_offset, fragment)
     ELSE IF p.r.resyncing_ /\ record_type = kLastType
     THEN ReadRecordLoop(r1, scratch, in_fragmented_record,
                         prospective_record_offset, fragment)
     ELSE
       CASE record_type = kFullType ->
              LET r2 == IF in_fragmented_record /\ scratch # <<>>
                        THEN ReportCorruption(r1, Len(scratch), "partial record without end(1)")
                        ELSE r1
              IN [r |-> [r2 EXCEPT !.last_record_offset_ = physical_record_offset],
                  ok |-> TRUE, record |-> fragment]
         [] record_type = kFirstType ->
              LET r2 == IF in_fragmented_record /\ scratch # <<>>
                        THEN ReportCorruption(r1, Len(scratch), "partial record without end(2)")
                        ELSE r1
              IN ReadRecordLoop(r2, fragment, TRUE, physical_record_offset, fragment)
         [] record_type = kMiddleType ->
              IF ~in_fragmented_record
              THEN ReadRecordLoop(
                     ReportCorruption(r1, Len(fragment), "missing start of fragmented record(1)"),
                     scratch, in_fragmented_record, prospective_record_offset, fragment)
              ELSE ReadRecordLoop(r1, scratch \o fragment, in_fragmented_record,
                                  prospective_record_offset, fragment)
         [] record_type = kLastType ->
              IF ~in_fragmented_record
              THEN ReadRecordLoop(
                     ReportCorruption(r1, Len(fragment), "missing start of fragmented record(2)"),
                     scratch, in_fragmented_record, prospective_record_offset, fragment)
              ELSE [r |-> [r1 EXCEPT !.last_record_offset_ = prospective_record_offset],
                    ok |-> TRUE, record |-> scratch \o fragment]
         [] record_type = kEof ->
              [r |-> r1, ok |-> FALSE, record |-> <<>>]
         [] record_type = kBadRecord ->
              IF in_fragmented_record
              THEN ReadRecordLoop(ReportCorruption(r1, Len(scratch), "error in middle of record"),
                                  <<>>, FALSE, prospective_record_offset, fragment)
              ELSE ReadRecordLoop(r1, scratch, in_fragmented_record,
                                  prospective_record_offset, fragment)
         [] OTHER ->
              ReadRecordLoop(
                ReportCorruption(r1,
                  Len(fragment) + (IF in_fragmented_record THEN Len(scratch) ELSE 0),
                  "unknown record type"),
                <<>>, FALSE, prospective_record_offset, fragment)

Reader_ReadRecord(r) ==
  LET r0 == IF r.last_record_offset_ < r.initial_offset_ THEN SkipToInitialBlock(r) ELSE r
  IN ReadRecordLoop(r0, <<>>, FALSE, 0, <<>>)

---------------------------------------------------------------------------
\* ReadRecord one iteration at a time

\* the iteration of ReadPhysicalRecord's loop that reads the next block:
\* file_->Read(kBlockSize, &buffer_, backing_store_) succeeds
ReadPhysicalRecord_Read(r) ==
  LET n == Min(kBlockSize, Len(r.file_) - r.pos)
  IN [r EXCEPT !.buffer_ = SubSeq(r.file_, r.pos + 1, r.pos + n), !.pos = @ + n,
               !.end_of_buffer_offset_ = @ + n,
               !.eof_ = (n < kBlockSize)]

\* one iteration of the while (true) loop of ReadRecord, after its call of
\* ReadPhysicalRecord returned p: what the iteration leaves in the reader
\* and in the local variables, and whether it returns (returns, with ok the
\* value returned and record the record) or goes round again
ReadRecordIteration(p, scratch, in_fragmented_record, prospective_record_offset) ==
  LET record_type == p.type
      fragment == p.result
      physical_record_offset ==
        p.r.end_of_buffer_offset_ - Len(p.r.buffer_) - kHeaderSize - Len(fragment)
      r1 == [p.r EXCEPT !.resyncing_ = FALSE]
      Continue(r2, scratch2, in_fragmented_record2, prospective_record_offset2) ==
        [r |-> r2, returns |-> FALSE, ok |-> FALSE, record |-> <<>>,
         scratch |-> scratch2, in_fragmented_record |-> in_fragmented_record2,
         prospective_record_offset |-> prospective_record_offset2,
         fragment |-> fragment]
      Return(r2, ok, record) ==
        [r |-> r2, returns |-> TRUE, ok |-> ok, record |-> record,
         scratch |-> <<>>, in_fragmented_record |-> FALSE,
         prospective_record_offset |-> 0, fragment |-> <<>>]
  IN IF p.r.resyncing_ /\ record_type = kMiddleType
     THEN Continue(p.r, scratch, in_fragmented_record, prospective_record_offset)
     ELSE IF p.r.resyncing_ /\ record_type = kLastType
     THEN Continue(r1, scratch, in_fragmented_record, prospective_record_offset)
     ELSE
       CASE record_type = kFullType ->
              Return([(IF in_fragmented_record /\ scratch # <<>>
                       THEN ReportCorruption(r1, Len(scratch),
                                             "partial record without end(1)")
                       ELSE r1)
                      EXCEPT !.last_record_offset_ = physical_record_offset],
                     TRUE, fragment)
         [] record_type = kFirstType ->
              Continue(IF in_fragmented_record /\ scratch # <<>>
                       THEN ReportCorruption(r1, Len(scratch),
                                             "partial record without end(2)")
                       ELSE r1,
                       fragment, TRUE, physical_record_offset)
         [] record_type = kMiddleType ->
              IF ~in_fragmented_record
              THEN Continue(ReportCorruption(r1, Len(fragment),
                                             "missing start of fragmented record(1)"),
                            scratch, in_fragmented_record, prospective_record_offset)
              ELSE Continue(r1, scratch \o fragment, in_fragmented_record,
                            prospective_record_offset)
         [] record_type = kLastType ->
              IF ~in_fragmented_record
              THEN Continue(ReportCorruption(r1, Len(fragment),
                                             "missing start of fragmented record(2)"),
                            scratch, in_fragmented_record, prospective_record_offset)
              ELSE Return([r1 EXCEPT !.last_record_offset_ = prospective_record_offset],
                          TRUE, scratch \o fragment)
         [] record_type = kEof ->
              Return(r1, FALSE, <<>>)
         [] record_type = kBadRecord ->
              IF in_fragmented_record
              THEN Continue(ReportCorruption(r1, Len(scratch), "error in middle of record"),
                            <<>>, FALSE, prospective_record_offset)
              ELSE Continue(r1, scratch, in_fragmented_record, prospective_record_offset)
         [] OTHER ->
              Continue(ReportCorruption(r1,
                         Len(fragment) + (IF in_fragmented_record THEN Len(scratch) ELSE 0),
                         "unknown record type"),
                       <<>>, FALSE, prospective_record_offset)

---------------------------------------------------------------------------
\* writing a log, damaging it, reading it back

LogInit ==
  /\ log_w = NewWriter
  /\ log_written = <<>>
  /\ log_damage = [kind |-> "none", pos |-> 0]
  /\ log_r = NoReader
  /\ log_out = [records |-> <<>>, eofs |-> 0]

LogAddRecord(len) ==
  /\ ~log_r.open
  /\ log_damage.kind = "none"
  /\ Len(log_written) < MaxRecords
  /\ log_w' = Writer_AddRecord(log_w, Payload(len))
  /\ log_written' = Append(log_written, Payload(len))
  /\ UNCHANGED <<log_damage, log_r, log_out, notLog>>

\* one byte of the first block of the finished file is changed on disk
LogFlipByte(pos) ==
  /\ ~log_r.open
  /\ log_damage.kind = "none"
  /\ pos \in 1 .. Len(log_w.dest_)
  /\ log_w' = [log_w EXCEPT !.dest_[pos] = (@ + 1) % 256]
  /\ log_damage' = [kind |-> "flip", pos |-> pos]
  /\ UNCHANGED <<log_written, log_r, log_out, notLog>>

\* the writer died: the file ends after its first pos bytes
LogCut(pos) ==
  /\ ~log_r.open
  /\ log_damage.kind = "none"
  /\ pos \in 0 .. Len(log_w.dest_) - 1
  /\ log_w' = [log_w EXCEPT !.dest_ = SubSeq(@, 1, pos)]
  /\ log_damage' = [kind |-> "cut", pos |-> pos]
  /\ UNCHANGED <<log_written, log_r, log_out, notLog>>

MaxFrames == 4

\* one physical record of any type is appended where the writer would put
\* its next one: at block_offset_, or at the start of the next block after
\* filling a rest of fewer than kHeaderSize bytes with zeros.  In this
\* scenario log_written holds the physical records, each with type and data
LogEmitFrame(t, len) ==
  /\ ~log_r.open
  /\ log_damage.kind = "none"
  /\ Len(log_written) < MaxFrames
  /\ LET leftover == kBlockSize - log_w.block_offset_
         w == IF leftover < kHeaderSize
              THEN [dest_ |-> log_w.dest_ \o [i \in 1 .. leftover |-> 0],
                    block_offset_ |-> 0]
              ELSE log_w
         data == [i \in 1 .. len |-> Len(log_written) + 1]
     IN /\ kHeaderSize + len <= kBlockSize - w.block_offset_
        /\ log_w' = EmitPhysicalRecord(w, t, data)
        /\ log_written' = Append(log_written, [type |-> t, data |-> data])
  /\ UNCHANGED <<log_damage, log_r, log_out, notLog>>

LogOpenReader(checksum, initial_offset) ==
  /\ ~log_r.open
  /\ log_r' = NewReader(log_w.dest_, checksum, initial_offset)
  /\ UNCHANGED <<log_w, log_written, log_damage, log_out, notLog>>

\* one call of ReadRecord; after a call returned false one more call is made
LogReadRecord ==
  /\ log_r.open
  /\ log_out.eofs < 2
  /\ LET res == Reader_ReadRecord(log_r)
     IN /\ log_r' = res.r
        /\ log_out' = IF res.ok
                      THEN [log_out EXCEPT !.records = Append(@, res.record)]
                      ELSE [log_out EXCEPT !.eofs = @ + 1]
  /\ UNCHANGED <<log_w, log_written, log_damage, notLog>>

LogNext ==
  \/ \E len \in PayloadLens : LogAddRecord(len)
  \/ \E pos \in 1 .. kBlockSize : LogFlipByte(pos)
  \/ \E checksum \in BOOLEAN : LogOpenReader(checksum, 0)
  \/ LogReadRecord

\* the largest initial_offset a reader is given: past the first block and
\* the first records of the second
MaxInitialOffset == kBlockSize + kHeaderSize + 1

\* an undamaged log read from any initial_offset
LogSeekNext ==
  \/ \E len \in PayloadLens : LogAddRecord(len)
  \/ \E checksum \in BOOLEAN, initial_offset \in 0 .. MaxInitialOffset :
       LogOpenReader(checksum, initial_offset)
  \/ LogReadRecord

\* the payload lengths of the physical records: none and some
FrameLens == {0, 2}

\* a log of physical records of any types read from its start
LogFramesNext ==
  \/ \E t \in {kFullType, kFirstType, kMiddleType, kLastType}, len \in FrameLens :
       LogEmitFrame(t, len)
  \/ \E checksum \in BOOLEAN : LogOpenReader(checksum, 0)
  \/ LogReadRecord

\* a log cut at any byte and read from its start
LogCutNext ==
  \/ \E len \in PayloadLens : LogAddRecord(len)
  \/ \E pos \in 0 .. MaxRecords * 3 * kBlockSize : LogCut(pos)
  \/ \E checksum \in BOOLEAN : LogOpenReader(checksum, 0)
  \/ LogReadRecord

(***************************************************************************)
(* Claims about the log                                                    *)
(***************************************************************************)
IsPrefix(s, t) == Len(s) <= Len(t) /\ s = SubSeq(t, 1, Len(s))

\* the file holds whole records only, all in its first block
InOneBlock == Len(log_w.dest_) <= kBlockSize

RECURSIVE WriterAfter(_)
\* the writer after the first k AddRecord calls
WriterAfter(k) ==
  IF k = 0 THEN NewWriter ELSE Writer_AddRecord(WriterAfter(k - 1), log_written[k])

\* offset in the file of the header of the first fragment of the k-th record
RecordStart(k) ==
  LET w == WriterAfter(k - 1)
      leftover == kBlockSize - w.block_offset_
  IN Len(w.dest_) + (IF leftover < kHeaderSize THEN leftover ELSE 0)

\* the flipped byte is a payload byte of the first fragment of the k-th
\* record, which lies in the first block
FlippedPayloadOf(k) ==
  /\ log_damage.kind = "flip"
  /\ log_damage.pos > RecordStart(k) + kHeaderSize
  /\ log_damage.pos <= Min(RecordStart(k) + kHeaderSize + Len(log_written[k]), kBlockSize)

\* the records after the k-th whose first fragment starts past the first block
RECURSIVE StartingLater(_)
StartingLater(k) ==
  IF k >= Len(log_written) THEN <<>>
  ELSE (IF RecordStart(k + 1) >= kBlockSize THEN <<log_written[k + 1]>> ELSE <<>>)
       \o StartingLater(k + 1)

ReadToEnd == log_r.open /\ log_out.eofs >= 1

RECURSIVE RecordsFrom(_, _)
\* the records from the k-th on whose first fragment starts at offset o or
\* later, by their numbers
RecordsFrom(k, o) ==
  IF k > Len(log_written) THEN <<>>
  ELSE (IF RecordStart(k) >= o THEN <<k>> ELSE <<>>) \o RecordsFrom(k + 1, o)

\* C14: on an undamaged log read with any initial_offset, the records that
\* ReadRecord returns are, in order, the logical records whose first
\* physical record starts at a file offset >= initial_offset, beginning
\* with the first of them (LastRecordOffset is the start of the record
\* returned last); when ReadRecord returns false all of them were returned.
\* Nothing of a record that starts before initial_offset is returned.
C14_ReadStartsAtInitialOffset ==
  LET Holds(expected, n) ==
        /\ n <= Len(expected)
        /\ \A i \in 1 .. n : log_out.records[i] = log_written[expected[i]]
        /\ n > 0 => log_r.last_record_offset_ = RecordStart(expected[n])
        /\ log_out.eofs >= 1 => n = Len(expected)
  IN (log_r.open /\ log_damage.kind = "none") =>
       Holds(RecordsFrom(1, log_r.initial_offset_), Len(log_out.records))

\* initial_offset lies inside the first record, which spans three blocks:
\* its Middle and Last fragments come after initial_offset and are skipped,
\* the records after it are returned
C14_Witness ==
  /\ log_r.open /\ log_damage.kind = "none" /\ ReadToEnd
  /\ Len(log_written) = 3
  /\ Len(log_written[1]) > kBlockSize
  /\ log_r.initial_offset_ > 0 /\ log_r.initial_offset_ < kBlockSize
  /\ log_out.records = <<log_written[2], log_written[3]>>

\* initial_offset lies between two records of one block: the first is
\* passed over, the second returned
C14_WitnessSameBlock ==
  /\ log_r.open /\ log_damage.kind = "none" /\ ReadToEnd
  /\ Len(log_written) = 2 /\ InOneBlock
  /\ log_r.initial_offset_ > 0 /\ log_r.initial_offset_ <= RecordStart(2)
  /\ log_out.records = <<log_written[2]>>

\* C2: the payloads appended to an empty log are what a reader with
\* initial_offset 0 returns from successive ReadRecord calls, in order; once
\* it returned them all ReadRecord returns false; nothing is reported
C2_LogRoundTrip ==
  (log_r.open /\ log_damage.kind = "none" /\ log_r.initial_offset_ = 0) =>
    /\ IsPrefix(log_out.records, log_written)
    /\ (log_out.eofs >= 1 => log_out.records = log_written)
    /\ log_r.drops = <<>>

\* three records, an empty one and one spanning three blocks among them,
\* were read back and ReadRecord returned false, twice
C2_Witness ==
  /\ log_damage.kind = "none"
  /\ log_r.open /\ log_out.eofs = 2
  /\ Len(log_written) = MaxRecords
  /\ \E i, j \in 1 .. Len(log_written) :
       /\ Len(log_written[i]) = 0
       /\ Len(log_written[j]) > kBlockSize
  /\ log_out.records = log_written

\* three records of one length, a payload byte of the middle one flipped,
\* read to the end with checksums verified
C8_Scenario ==
  /\ Len(log_written) = 3
  /\ \A i \in 1 .. 3 : Len(log_written[i]) = Len(log_written[1])
  /\ Len(log_written[1]) > 0
  /\ InOneBlock
  /\ FlippedPayloadOf(2)
  /\ log_r.open /\ log_r.checksum_ /\ ReadToEnd

\* C8 as stated: the record before the damaged one is returned, a
\* corruption of at least the record's length is reported, and the record
\* after the damaged one is still returned
C8_ThirdRecordReturned ==
  C8_Scenario =>
    /\ log_out.records = <<log_written[1], log_written[3]>>
    /\ \E i \in 1 .. Len(log_r.drops) : log_r.drops[i].bytes >= Len(log_written[2])

\* C8 as the code has it: a checksum mismatch drops the rest of the block
\* that was read.  With a payload byte of the k-th record flipped in the
\* first block and checksums verified, the records before the k-th are
\* returned, the first corruption reported is a checksum mismatch of all
\* bytes from the header of the k-th record to the end of the block, no later
\* record that starts in the block is returned, and the scan goes on: every
\* record that starts in a later block is returned.
C8_ChecksumMismatchDropsBlock ==
  \A k \in 1 .. Len(log_written) :
    (FlippedPayloadOf(k) /\ log_r.open /\ log_r.checksum_ /\ ReadToEnd) =>
      /\ log_out.records = SubSeq(log_written, 1, k - 1) \o StartingLater(k)
      /\ Len(log_r.drops) >= 1
      /\ log_r.drops[1] = [bytes |-> Min(Len(log_w.dest_), kBlockSize) - RecordStart(k),
                           reason |-> "checksum mismatch"]

\* the scenario of C8 was read to the end: the first record came back, the
\* third did not, and the drop is that of the second and the third record
C8_Witness ==
  /\ C8_Scenario
  /\ log_out.records = <<log_written[1]>>
  /\ log_r.drops[1].bytes = 2 * (kHeaderSize + Len(log_written[2]))

\* the damaged record is alone in its block and the two records of the next
\* block were returned after the corruption was reported
C8_WitnessNextBlock ==
  /\ Len(log_written) = 3
  /\ Len(log_written[1]) = kBlockSize - 2 * kHeaderSize + 2
  /\ log_damage.kind = "flip" /\ log_damage.pos > kHeaderSize
  /\ log_damage.pos <= kHeaderSize + Len(log_written[1])
  /\ log_r.open /\ log_r.checksum_ /\ ReadToEnd
  /\ Len(log_out.records) = 2

(***************************************************************************)
(* Variable-length coding: util/coding.cc, util/coding.h                   *)
(***************************************************************************)
\* A uint64_t is kept as its eight bytes, most significant first, so that
\* values beyond TLC's integers (kMaxSequenceNumber, kTableMagicNumber) have
\* their place; U64 is the uint64_t of a small integer
U64(n) ==
  <<0, 0, 0, 0, (n \div 16777216) % 256, (n \div 65536) % 256, (n \div 256) % 256, n % 256>>

\* -1, 0, +1 as a < b, a = b, a > b
U64_Compare(a, b) ==
  LET diff == {i \in 1 .. 8 : a[i] # b[i]}
  IN IF diff = {} THEN 0
     ELSE LET d == CHOOSE i \in diff : \A j \in diff : i <= j
          IN IF a[d] < b[d] THEN -1 ELSE 1

\* least significant byte first
EncodeFixed64(value) == SeqReverse(value)

DecodeFixed64(buf) == SeqReverse(SubSeq(buf, 1, 8))

RECURSIVE EncodeVarint32(_)
\* seven bits a byte, least significant first, bit 128 set on all but the last
EncodeVarint32(v) ==
  IF v < 128 THEN <<v>> ELSE <<(v % 128) + 128>> \o EncodeVarint32(v \div 128)

RECURSIVE VarintLength(_)
VarintLength(v) == IF v >= 128 THEN 1 + VarintLength(v \div 128) ELSE 1

RECURSIVE GetVarint32Loop(_, _, _, _)
\* the loop of GetVarint32PtrFallback: i bytes of p (of at most limit) are read
GetVarint32Loop(p, limit, i, result) ==
  IF 7 * i <= 28 /\ i < limit /\ i < Len(p)
  THEN LET byte == p[i + 1]
       IN IF byte >= 128
          THEN GetVarint32Loop(p, limit, i + 1, result + (byte % 128) * 2 ^ (7 * i))
          ELSE [ok |-> TRUE, value |-> result + byte * 2 ^ (7 * i),
                rest |-> SubSeq(p, i + 2, Len(p))]
  ELSE [ok |-> FALSE, value |-> 0, rest |-> <<>>]

GetVarint32Ptr(p, limit) == GetVarint32Loop(p, limit, 0, 0)

(***************************************************************************)
(* Comparators: include/leveldb/slice.h, util/comparator.cc,               *)
(* db/dbformat.cc, db/memtable.cc                                          *)
(***************************************************************************)
kTypeDeletion == 0
kTypeValue == 1
kValueTypeForSeek == kTypeValue

\* Slice::compare: memcmp of the common prefix, then the shorter one first
Slice_compare(a, b) ==
  LET min_len == Min(Len(a), Len(b))
      diff == {i \in 1 .. min_len : a[i] # b[i]}
  IN IF diff # {}
     THEN LET d == CHOOSE i \in diff : \A j \in diff : i <= j
          IN IF a[d] < b[d] THEN -1 ELSE 1
     ELSE IF Len(a) < Len(b) THEN -1
     ELSE IF Len(a) > Len(b) THEN 1
     ELSE 0

\* BytewiseComparatorImpl::Compare
Bytewise_Compare(a, b) == Slice_compare(a, b)

ExtractUserKey(internal_key) == SubSeq(internal_key, 1, Len(internal_key) - 8)

\* (1 << 56) - 1, db/dbformat.h
kMaxSequenceNumber == <<0, 255, 255, 255, 255, 255, 255, 255>>

\* (seq << 8) | t, seq <= kMaxSequenceNumber
PackSequenceAndType(seq, t) == Tail(seq) \o <<t>>

\* AppendInternalKey to an empty string; key = [user_key, sequence, type]
AppendInternalKey(key) ==
  key.user_key \o EncodeFixed64(PackSequenceAndType(key.sequence, key.type))

\* a comparator that orders equal user keys by increasing tag
InternalKeyComparator_CompareAscending(akey, bkey) ==
  LET r == Bytewise_Compare(ExtractUserKey(akey), ExtractUserKey(bkey))
      anum == DecodeFixed64(SubSeq(akey, Len(akey) - 7, Len(akey)))
      bnum == DecodeFixed64(SubSeq(bkey, Len(bkey) - 7, Len(bkey)))
  IN IF r # 0 THEN r
     ELSE IF U64_Compare(anum, bnum) < 0 THEN -1
     ELSE IF U64_Compare(anum, bnum) > 0 THEN 1
     ELSE 0

\* increasing user key, then decreasing (sequence, type)
InternalKeyComparator_Compare(akey, bkey) ==
  LET r == Bytewise_Compare(ExtractUserKey(akey), ExtractUserKey(bkey))
      anum == DecodeFixed64(SubSeq(akey, Len(akey) - 7, Len(akey)))
      bnum == DecodeFixed64(SubSeq(bkey, Len(bkey) - 7, Len(bkey)))
  IN IF r # 0 THEN r
     ELSE IF U64_Compare(anum, bnum) > 0 THEN -1
     ELSE IF U64_Compare(anum, bnum) < 0 THEN 1
     ELSE 0

\* GetLengthPrefixedSlice of memtable.cc: the bytes a varint32 length announces
GetLengthPrefixedSlice(data) ==
  LET v == GetVarint32Ptr(data, 5)
  IN SubSeq(v.rest, 1, v.value)

\* MemTable::KeyComparator::operator()
KeyComparator(aptr, bptr) ==
  InternalKeyComparator_Compare(GetLengthPrefixedSlice(aptr), GetLengthPrefixedSlice(bptr))

(***************************************************************************)
(* Skip list: db/skiplist.h                                                *)
(***************************************************************************)
\* bounds of the skip list model
SkipKeys == 3        \* the keys 1 .. SkipKeys are inserted, in any order
MaxHeight == 3       \* RandomHeight returns 1 .. MaxHeight

kMaxHeight == 12
Uninit == -1         \* a next_ slot of a new node that nothing was stored to
head_ == 1           \* the address of the head node

\* compare_ of a SkipList<Key, Comparator>: integer keys under their order
\* (as in SkipList<uint64_t, Comparator>), memtable entries under KeyComparator
compare_(cmp, a, b) ==
  IF cmp = "KeyComparator" THEN KeyComparator(a, b)
  ELSE IF a < b THEN -1 ELSE IF a > b THEN 1 ELSE 0

\* SkipList::SkipList(cmp, arena) on sl = [compare_, node, max_height_];
\* node[x] is the Node at address x: its key and next_[0 .. height - 1]
NewSkipList(cmp) ==
  [compare_ |-> cmp,
   node |-> <<[key |-> 0, next_ |-> [i \in 1 .. kMaxHeight |-> NULL]]>>,
   max_height_ |-> 1]

\* NewNode: arena memory, the key constructed, next_ not written
NewNode(sl, key, height) ==
  [sl EXCEPT !.node = Append(@, [key |-> key, next_ |-> [i \in 1 .. height |-> Uninit]])]

\* Node::Next(n), Node::NoBarrier_Next(n); reading past the node's height
\* reads memory nothing was stored to
Node_Next(sl, x, n) ==
  IF n + 1 <= Len(sl.node[x].next_) THEN sl.node[x].next_[n + 1] ELSE Uninit

\* Node::SetNext(n, v), Node::NoBarrier_SetNext(n, v)
Node_SetNext(sl, x, n, v) == [sl EXCEPT !.node[x].next_[n + 1] = v]

GetMaxHeight(sl) == sl.max_height_

Equal(sl, a, b) == compare_(sl.compare_, a, b) = 0

\* a search that also steps over a node holding the key itself
KeyIsAfterOrAtNode(sl, key, n) ==
  n # NULL /\ compare_(sl.compare_, sl.node[n].key, key) <= 0

KeyIsAfterNode(sl, key, n) ==
  n # NULL /\ compare_(sl.compare_, sl.node[n].key, key) < 0

RECURSIVE FindGreaterOrEqualLoop(_, _, _, _, _)
\* the while (true) loop of FindGreaterOrEqual; prev[level + 1] is prev[level]
FindGreaterOrEqualLoop(sl, key, x, level, prev) ==
  LET next == Node_Next(sl, x, level)
  IN IF KeyIsAfterNode(sl, key, next)
     THEN FindGreaterOrEqualLoop(sl, key, next, level, prev)
     ELSE LET prev1 == [prev EXCEPT ![level + 1] = x]
          IN IF level = 0
             THEN [node |-> next, prev |-> prev1]
             ELSE FindGreaterOrEqualLoop(sl, key, x, level - 1, prev1)

FindGreaterOrEqual(sl, key) ==
  FindGreaterOrEqualLoop(sl, key, head_, GetMaxHeight(sl) - 1,
                         [i \in 1 .. kMaxHeight |-> Uninit])

\* Insert up to NewNode: the search, the raise of max_height_, the new node.
\* ins holds Insert's locals: x, height, prev and the loop index i
Insert_Begin(sl, key, height) ==
  LET f == FindGreaterOrEqual(sl, key)
      raise == height > GetMaxHeight(sl)
      prev == [i \in 1 .. kMaxHeight |->
                 IF raise /\ i - 1 >= GetMaxHeight(sl) /\ i - 1 < height
                 THEN head_ ELSE f.prev[i]]
      sl1 == IF raise THEN [sl EXCEPT !.max_height_ = height] ELSE sl
      sl2 == NewNode(sl1, key, height)
  IN [sl |-> sl2,
      ins |-> [pc |-> "setnext", x |-> Len(sl2.node), height |-> height,
               prev |-> prev, i |-> 0]]

\* an Insert that links the node without storing its next pointer
Insert_SetNextForgotten(sl, ins) == sl

\* an Insert that makes the new node the last one of its levels
Insert_SetNextNull(sl, ins) == Node_SetNext(sl, ins.x, ins.i, NULL)

\* x->NoBarrier_SetNext(i, prev[i]->NoBarrier_Next(i))
Insert_SetNext(sl, ins) ==
  Node_SetNext(sl, ins.x, ins.i, Node_Next(sl, ins.prev[ins.i + 1], ins.i))

\* prev[i]->SetNext(i, x)
Insert_Link(sl, ins) == Node_SetNext(sl, ins.prev[ins.i + 1], ins.i, ins.x)

RECURSIVE Insert_Loop(_, _)
Insert_Loop(sl, ins) ==
  IF ins.i >= ins.height THEN sl
  ELSE Insert_Loop(Insert_Link(Insert_SetNext(sl, ins), ins), [ins EXCEPT !.i = @ + 1])

\* SkipList::Insert run from its first to its last statement
SkipList_Insert(sl, key, height) ==
  LET b == Insert_Begin(sl, key, height) IN Insert_Loop(b.sl, b.ins)

SkipList_Contains(sl, key) ==
  LET x == FindGreaterOrEqual(sl, key).node
  IN x # NULL /\ Equal(sl, key, sl.node[x].key)

\* Iterator::Seek(target), then key() if Valid()
Iterator_Seek(sl, target) ==
  LET x == FindGreaterOrEqual(sl, target).node
  IN [Valid |-> x # NULL, key |-> IF x # NULL THEN sl.node[x].key ELSE <<>>]

RECURSIVE IterateFrom(_, _)
\* the keys of Iterator::key() from node_ on, Next() until !Valid()
IterateFrom(sl, node_) ==
  IF node_ = NULL THEN <<>>
  ELSE <<sl.node[node_].key>> \o IterateFrom(sl, Node_Next(sl, node_, 0))

\* SeekToFirst, then Next until the end
SkipList_Iterate(sl) == IterateFrom(sl, Node_Next(sl, head_, 0))

---------------------------------------------------------------------------
\* one writer running Insert store by store, and a reader

NoInsert == [pc |-> "idle", x |-> NULL, height |-> 0, prev |-> <<>>, i |-> 0]
\* before are the keys whose Insert had returned when the read began, seen
\* the keys the iteration has yielded
NoRead == [pc |-> "idle", key |-> 0, x |-> NULL, level |-> 0, res |-> "none",
           before |-> {}, seen |-> <<>>]

SkipInit ==
  /\ skip = NewSkipList("IntComparator")
  /\ skip_ins = NoInsert
  /\ skip_rd = NoRead

\* the keys whose nodes exist
SkipAllocated == {skip.node[x].key : x \in 2 .. Len(skip.node)}

\* the keys whose Insert has returned
SkipInserted ==
  {skip.node[x].key : x \in {y \in 2 .. Len(skip.node) : skip_ins.pc = "idle" \/ y # skip_ins.x}}

SkipInsertBegin(key, height) ==
  /\ skip_ins.pc = "idle"
  /\ key \notin SkipAllocated
  /\ LET b == Insert_Begin(skip, key, height)
     IN skip' = b.sl /\ skip_ins' = b.ins
  /\ UNCHANGED <<skip_rd, notSkip>>

SkipInsertSetNext ==
  /\ skip_ins.pc = "setnext"
  /\ skip' = Insert_SetNext(skip, skip_ins)
  /\ skip_ins' = [skip_ins EXCEPT !.pc = "link"]
  /\ UNCHANGED <<skip_rd, notSkip>>

SkipInsertLink ==
  /\ skip_ins.pc = "link"
  /\ skip' = Insert_Link(skip, skip_ins)
  /\ skip_ins' = IF skip_ins.i + 1 < skip_ins.height
                 THEN [skip_ins EXCEPT !.pc = "setnext", !.i = @ + 1]
                 ELSE NoInsert
  /\ UNCHANGED <<skip_rd, notSkip>>

\* a reader enters FindGreaterOrEqual(key, NULL) for Contains(key)
SkipContainsBegin(key) ==
  /\ skip_rd.pc = "idle"
  /\ skip_rd' = [pc |-> "find", key |-> key, x |-> head_,
                 level |-> GetMaxHeight(skip) - 1, res |-> "none",
                 before |-> SkipInserted, seen |-> <<>>]
  /\ UNCHANGED <<skip, skip_ins, notSkip>>

\* one turn of the loop of FindGreaterOrEqual, and the end of Contains
SkipContainsStep ==
  /\ skip_rd.pc = "find"
  /\ LET next == Node_Next(skip, skip_rd.x, skip_rd.level)
     IN skip_rd' =
          IF next = Uninit THEN [skip_rd EXCEPT !.pc = "undefined"]
          ELSE IF KeyIsAfterNode(skip, skip_rd.key, next)
          THEN [skip_rd EXCEPT !.x = next]
          ELSE IF skip_rd.level > 0
          THEN [skip_rd EXCEPT !.level = @ - 1]
          ELSE [NoRead EXCEPT !.key = skip_rd.key,
                              !.before = skip_rd.before,
                              !.res = IF next # NULL
                                         /\ Equal(skip, skip_rd.key, skip.node[next].key)
                                      THEN "found" ELSE "missing"]
  /\ UNCHANGED <<skip, skip_ins, notSkip>>

\* Iterator::SeekToFirst
SkipSeekToFirst ==
  /\ skip_rd.pc = "idle"
  /\ LET node_ == Node_Next(skip, head_, 0)
     IN skip_rd' = IF node_ = NULL
                   THEN [NoRead EXCEPT !.res = "end", !.before = SkipInserted]
                   ELSE [NoRead EXCEPT !.pc = "iter", !.x = node_,
                                       !.before = SkipInserted,
                                       !.seen = <<skip.node[node_].key>>]
  /\ UNCHANGED <<skip, skip_ins, notSkip>>

\* Iterator::Next
SkipIterNext ==
  /\ skip_rd.pc = "iter"
  /\ LET node_ == Node_Next(skip, skip_rd.x, 0)
     IN skip_rd' = IF node_ = Uninit THEN [skip_rd EXCEPT !.pc = "undefined"]
                   ELSE IF node_ = NULL
                   THEN [NoRead EXCEPT !.res = "end", !.before = skip_rd.before,
                                       !.seen = skip_rd.seen]
                   ELSE [skip_rd EXCEPT !.x = node_,
                                        !.seen = Append(@, skip.node[node_].key)]
  /\ UNCHANGED <<skip, skip_ins, notSkip>>

SkipNext ==
  \/ \E key \in 1 .. SkipKeys, height \in 1 .. MaxHeight : SkipInsertBegin(key, height)
  \/ SkipInsertSetNext
  \/ SkipInsertLink
  \/ \E key \in 1 .. SkipKeys : SkipContainsBegin(key)
  \/ SkipContainsStep
  \/ SkipSeekToFirst
  \/ SkipIterNext

(***************************************************************************)
(* Memtable: db/memtable.cc, LookupKey of db/dbformat.cc                   *)
(***************************************************************************)
\* bounds of the memtable model
MaxAdds == 3          \* MemTable::Add calls in one behaviour
MaxSequence == 3      \* the sequence numbers 1 .. MaxSequence are given out

\* user keys (one a prefix of the other) and the value written under a
\* sequence number (empty under the first)
UserKeys == {<<1>>, <<1, 1>>}
ValueOf(s) == IF s = 1 THEN <<>> ELSE <<40 + s>>
MemHeights == {1, 2}

\* MemTable::MemTable(cmp): table_(comparator_, &arena_)
NewMemTable == [table_ |-> NewSkipList("KeyComparator")]

\* the entry Add builds in the arena; height is what RandomHeight returns
\* inside table_.Insert
MemTable_Add(m, s, type, key, value, height) ==
  LET key_size == Len(key)
      val_size == Len(value)
      internal_key_size == key_size + 8
      buf == EncodeVarint32(internal_key_size) \o key
             \o EncodeFixed64(PackSequenceAndType(U64(s), type))
             \o EncodeVarint32(val_size) \o value
  IN [m EXCEPT !.table_ = SkipList_Insert(@, buf, height)]

\* a lookup key whose tag carries kTypeDeletion
LookupKeyTypeDeletion(user_key, s) ==
  LET usize == Len(user_key)
      len == EncodeVarint32(usize + 8)
  IN [start_ |-> len \o user_key \o EncodeFixed64(PackSequenceAndType(U64(s), kTypeDeletion)),
      kstart_ |-> Len(len)]

\* LookupKey::LookupKey(user_key, s): start_ .. end_ and the offset kstart_
LookupKey(user_key, s) ==
  LET usize == Len(user_key)
      len == EncodeVarint32(usize + 8)
  IN [start_ |-> len \o user_key \o EncodeFixed64(PackSequenceAndType(U64(s), kValueTypeForSeek)),
      kstart_ |-> Len(len)]

\* what Get leaves in *value and *s, both untouched unless assigned (the
\* caller passes an OK status), and what it returns
MemTable_Get(m, key) ==
  LET memkey == key.start_
      user_key == SubSeq(key.start_, key.kstart_ + 1, Len(key.start_) - 8)
      iter == Iterator_Seek(m.table_, memkey)
      miss == [ret |-> FALSE, assigned |-> FALSE, value |-> <<>>, s |-> "OK"]
  IN IF ~iter.Valid THEN miss
     ELSE
       LET entry == iter.key
           v == GetVarint32Ptr(entry, 5)
           key_length == v.value
           key_ptr == v.rest
       IN IF Bytewise_Compare(SubSeq(key_ptr, 1, key_length - 8), user_key) # 0 THEN miss
          ELSE
            LET tag == DecodeFixed64(SubSeq(key_ptr, key_length - 7, key_length))
            IN CASE tag[8] = kTypeValue ->
                      [ret |-> TRUE, assigned |-> TRUE,
                       value |-> GetLengthPrefixedSlice(
                                   SubSeq(key_ptr, key_length + 1, Len(key_ptr))),
                       s |-> "OK"]
                 [] tag[8] = kTypeDeletion ->
                      [ret |-> TRUE, assigned |-> FALSE, value |-> <<>>, s |-> "NotFound"]
                 [] OTHER -> miss

---------------------------------------------------------------------------
NoGet == [valid |-> FALSE, key |-> <<>>, s |-> 0,
          res |-> [ret |-> FALSE, assigned |-> FALSE, value |-> <<>>, s |-> "OK"]]

MemInit ==
  /\ mem = NewMemTable
  /\ mem_added = <<>>
  /\ mem_got = NoGet

\* Add with a sequence number no earlier Add used
MemAdd(s, type, key, value, height) ==
  /\ Len(mem_added) < MaxAdds
  /\ \A i \in 1 .. Len(mem_added) : mem_added[i].s # s
  /\ mem' = MemTable_Add(mem, s, type, key, value, height)
  /\ mem_added' = Append(mem_added, [s |-> s, type |-> type, key |-> key, value |-> value])
  /\ mem_got' = NoGet
  /\ UNCHANGED notMem

MemGet(key, s) ==
  /\ mem_got' = [valid |-> TRUE, key |-> key, s |-> s,
                 res |-> MemTable_Get(mem, LookupKey(key, s))]
  /\ UNCHANGED <<mem, mem_added, notMem>>

MemNext ==
  \/ \E s \in 1 .. MaxSequence, key \in UserKeys, height \in MemHeights :
       \/ MemAdd(s, kTypeValue, key, ValueOf(s), height)
       \/ MemAdd(s, kTypeDeletion, key, <<>>, height)
  \/ \E key \in UserKeys, s \in 0 .. MaxSequence + 1 : MemGet(key, s)

(***************************************************************************)
(* Comparators and filter policies of a table: util/comparator.cc,         *)
(* db/dbformat.cc                                                          *)
(***************************************************************************)
RECURSIVE CommonPrefix(_, _, _)
\* the loop that counts the leading bytes a and b share, from index i on
CommonPrefix(a, b, i) ==
  IF i < Min(Len(a), Len(b)) /\ a[i + 1] = b[i + 1] THEN CommonPrefix(a, b, i + 1) ELSE i

\* a separator that takes the next byte value without looking at the limit
Bytewise_FindShortestSeparatorNoGap(start, limit) ==
  LET min_length == Min(Len(start), Len(limit))
      diff_index == CommonPrefix(start, limit, 0)
  IN IF diff_index >= min_length THEN start
     ELSE LET diff_byte == start[diff_index + 1]
          IN IF diff_byte < 255
             THEN SubSeq(start, 1, diff_index) \o <<diff_byte + 1>>
             ELSE start

\* BytewiseComparatorImpl::FindShortestSeparator: the new *start
Bytewise_FindShortestSeparator(start, limit) ==
  LET min_length == Min(Len(start), Len(limit))
      diff_index == CommonPrefix(start, limit, 0)
  IN IF diff_index >= min_length THEN start
     ELSE LET diff_byte == start[diff_index + 1]
          IN IF diff_byte < 255 /\ diff_byte + 1 < limit[diff_index + 1]
             THEN SubSeq(start, 1, diff_index) \o <<diff_byte + 1>>
             ELSE start

\* BytewiseComparatorImpl::FindShortSuccessor: the new *key, cut after its
\* first byte that is not 0xff, that byte incremented
Bytewise_FindShortSuccessor(key) ==
  LET incrementable == {i \in 1 .. Len(key) : key[i] # 255}
      First(i) == SubSeq(key, 1, i - 1) \o <<key[i] + 1>>
  IN IF incrementable = {} THEN key
     ELSE First(CHOOSE i \in incrementable : \A j \in incrementable : i <= j)

\* InternalKeyComparator::FindShortestSeparator over the bytewise comparator
InternalKeyComparator_FindShortestSeparator(start, limit) ==
  LET user_start == ExtractUserKey(start)
      user_limit == ExtractUserKey(limit)
      tmp == Bytewise_FindShortestSeparator(user_start, user_limit)
  IN IF Len(tmp) < Len(user_start) /\ Bytewise_Compare(user_start, tmp) < 0
     THEN tmp \o EncodeFixed64(PackSequenceAndType(kMaxSequenceNumber, kValueTypeForSeek))
     ELSE start

InternalKeyComparator_FindShortSuccessor(key) ==
  LET user_key == ExtractUserKey(key)
      tmp == Bytewise_FindShortSuccessor(user_key)
  IN IF Len(tmp) < Len(user_key) /\ Bytewise_Compare(user_key, tmp) < 0
     THEN tmp \o EncodeFixed64(PackSequenceAndType(kMaxSequenceNumber, kValueTypeForSeek))
     ELSE key

\* the virtual calls on options.comparator: "bytewise" is BytewiseComparator(),
\* "internal" an InternalKeyComparator over it
Comparator_Compare(cmp, a, b) ==
  IF cmp = "internal" THEN InternalKeyComparator_Compare(a, b) ELSE Bytewise_Compare(a, b)

Comparator_FindShortestSeparator(cmp, start, limit) ==
  IF cmp = "internal" THEN InternalKeyComparator_FindShortestSeparator(start, limit)
  ELSE Bytewise_FindShortestSeparator(start, limit)

Comparator_FindShortSuccessor(cmp, key) ==
  IF cmp = "internal" THEN InternalKeyComparator_FindShortSuccessor(key)
  ELSE Bytewise_FindShortSuccessor(key)

\* A filter policy without false negatives (include/leveldb/filter_policy.h
\* is not among the sources): a filter is one byte per key, the sum of the
\* key's bytes modulo FilterHashes, so different keys can share a byte
FilterHashes == 3
FilterHash(key) == SeqSum(key) % FilterHashes

\* "test" is that policy, "internal" an InternalFilterPolicy around it
\* (db/dbformat.cc), which hands the user keys to it
FilterPolicy_CreateFilter(policy, keys) ==
  [i \in 1 .. Len(keys) |->
     FilterHash(IF policy = "internal" THEN ExtractUserKey(keys[i]) ELSE keys[i])]

FilterPolicy_KeyMayMatch(policy, key, filter) ==
  LET k == IF policy = "internal" THEN ExtractUserKey(key) ELSE key
  IN \E i \in 1 .. Len(filter) : filter[i] = FilterHash(k)

(***************************************************************************)
(* Blocks and handles: table/block_builder.cc, table/format.cc             *)
(***************************************************************************)
\* BlockBuilder on b = [buffer_, restarts_, counter_, finished_, last_key_];
\* options_->block_restart_interval is passed as interval.  A builder is in
\* this state after its constructor and after Reset()
NewBlockBuilder ==
  [buffer_ |-> <<>>, restarts_ |-> <<0>>, counter_ |-> 0, finished_ |-> FALSE,
   last_key_ |-> <<>>]

BlockBuilder_CurrentSizeEstimate(b) == Len(b.buffer_) + Len(b.restarts_) * 4 + 4

BlockBuilder_empty(b) == b.buffer_ = <<>>

RECURSIVE PutFixed32s(_)
\* PutFixed32 of each element of a vector, in order
PutFixed32s(v) == IF v = <<>> THEN <<>> ELSE EncodeFixed32(Head(v)) \o PutFixed32s(Tail(v))

BlockBuilder_Finish(b) ==
  [b EXCEPT !.buffer_ = @ \o PutFixed32s(b.restarts_) \o EncodeFixed32(Len(b.restarts_)),
            !.finished_ = TRUE]

\* an Add that keeps only the unshared bytes as the last key
BlockBuilder_AddForgetsShared(b, interval, key, value) ==
  LET restart == ~(b.counter_ < interval)
      shared == IF restart THEN 0 ELSE CommonPrefix(b.last_key_, key, 0)
      non_shared == Len(key) - shared
  IN [b EXCEPT
        !.restarts_ = IF restart THEN Append(@, Len(b.buffer_)) ELSE @,
        !.buffer_ = @ \o EncodeVarint32(shared) \o EncodeVarint32(non_shared)
                      \o EncodeVarint32(Len(value))
                      \o SubSeq(key, shared + 1, Len(key)) \o value,
        !.last_key_ = SubSeq(key, shared + 1, Len(key)),
        !.counter_ = (IF restart THEN 0 ELSE @) + 1]

\* an Add that starts a restart after one entry more than the interval
BlockBuilder_AddRestartsLate(b, interval, key, value) ==
  LET restart == ~(b.counter_ <= interval)
      shared == IF restart THEN 0 ELSE CommonPrefix(b.last_key_, key, 0)
      non_shared == Len(key) - shared
  IN [b EXCEPT
        !.restarts_ = IF restart THEN Append(@, Len(b.buffer_)) ELSE @,
        !.buffer_ = @ \o EncodeVarint32(shared) \o EncodeVarint32(non_shared)
                      \o EncodeVarint32(Len(value))
                      \o SubSeq(key, shared + 1, Len(key)) \o value,
        !.last_key_ = SubSeq(@, 1, shared) \o SubSeq(key, shared + 1, Len(key)),
        !.counter_ = (IF restart THEN 0 ELSE @) + 1]

BlockBuilder_Add(b, interval, key, value) ==
  LET restart == ~(b.counter_ < interval)
      shared == IF restart THEN 0 ELSE CommonPrefix(b.last_key_, key, 0)
      non_shared == Len(key) - shared
  IN [b EXCEPT
        !.restarts_ = IF restart THEN Append(@, Len(b.buffer_)) ELSE @,
        !.buffer_ = @ \o EncodeVarint32(shared) \o EncodeVarint32(non_shared)
                      \o EncodeVarint32(Len(value))
                      \o SubSeq(key, shared + 1, Len(key)) \o value,
        !.last_key_ = SubSeq(@, 1, shared) \o SubSeq(key, shared + 1, Len(key)),
        !.counter_ = (IF restart THEN 0 ELSE @) + 1]

\* EncodeVarint64 and GetVarint64Ptr: offsets and sizes of the model are small
\* integers, coded seven bits a byte like a varint32, up to ten bytes
PutVarint64(v) == EncodeVarint32(v)

RECURSIVE GetVarint64Ptr(_, _, _)
\* the loop of GetVarint64Ptr with i bytes of p read, as GetVarint64 uses it:
\* whether it succeeded, the value, the input after it
GetVarint64Ptr(p, i, result) ==
  IF 7 * i <= 63 /\ i < Len(p)
  THEN LET byte == p[i + 1]
       IN IF byte >= 128
          THEN GetVarint64Ptr(p, i + 1, result + (byte % 128) * 2 ^ (7 * i))
          ELSE [ok |-> TRUE, value |-> result + byte * 2 ^ (7 * i),
                rest |-> SubSeq(p, i + 2, Len(p))]
  ELSE [ok |-> FALSE, value |-> 0, rest |-> p]

\* BlockHandle h = [offset_, size_]
BlockHandle_EncodeTo(h) == PutVarint64(h.offset_) \o PutVarint64(h.size_)

\* BlockHandle::DecodeFrom(&input): the status, the handle, the new input
BlockHandle_DecodeFrom(input) ==
  LET Bad == [s |-> "Corruption: bad block handle",
              handle |-> [offset_ |-> 0, size_ |-> 0], input |-> input]
      Size(o, z) ==
        IF z.ok
        THEN [s |-> "OK", handle |-> [offset_ |-> o.value, size_ |-> z.value],
              input |-> z.rest]
        ELSE Bad
      Offset(o) == IF o.ok THEN Size(o, GetVarint64Ptr(o.rest, 0, 0)) ELSE Bad
  IN Offset(GetVarint64Ptr(input, 0, 0))

kMaxEncodedLength == 20
kEncodedLength == 2 * kMaxEncodedLength + 8
kBlockTrailerSize == 5
kNoCompression == 0
kSnappyCompression == 1

\* 0xdb4775248b80fb57
kTableMagicNumber == <<219, 71, 117, 36, 139, 128, 251, 87>>

\* Footer::EncodeTo into an empty string: the handles, padding, the magic
\* number as two fixed32 (low word first)
Footer_EncodeTo(footer) ==
  LET handles == BlockHandle_EncodeTo(footer.metaindex_handle_)
                 \o BlockHandle_EncodeTo(footer.index_handle_)
  IN handles \o [i \in 1 .. 2 * kMaxEncodedLength - Len(handles) |-> 0]
     \o EncodeFixed64(kTableMagicNumber)

Footer_DecodeFromAnyMagic(input) ==
  LET zero == [offset_ |-> 0, size_ |-> 0]
      Index(m, x) ==
        [s |-> x.s, metaindex_handle_ |-> m.handle, index_handle_ |-> x.handle]
      Metaindex(m) ==
        IF m.s = "OK" THEN Index(m, BlockHandle_DecodeFrom(m.input))
        ELSE [s |-> m.s, metaindex_handle_ |-> zero, index_handle_ |-> zero]
  IN Metaindex(BlockHandle_DecodeFrom(input))

\* Footer::DecodeFrom(&input): the status and the two handles
Footer_DecodeFrom(input) ==
  LET zero == [offset_ |-> 0, size_ |-> 0]
      Index(m, x) ==
        [s |-> x.s, metaindex_handle_ |-> m.handle, index_handle_ |-> x.handle]
      Metaindex(m) ==
        IF m.s = "OK" THEN Index(m, BlockHandle_DecodeFrom(m.input))
        ELSE [s |-> m.s, metaindex_handle_ |-> zero, index_handle_ |-> zero]
  IN IF DecodeFixed64(SubSeq(input, kEncodedLength - 7, kEncodedLength))
        # kTableMagicNumber
     THEN [s |-> "Corruption: not an sstable (bad magic number)",
           metaindex_handle_ |-> zero, index_handle_ |-> zero]
     ELSE Metaindex(BlockHandle_DecodeFrom(input))

(***************************************************************************)
(* The filter block: table/filter_block.cc                                 *)
(***************************************************************************)
\* 11 in the source, so that a filter covers 2 KiB of file; scaled down with
\* the keys of the model
kFilterBaseLg == 5

\* FilterBlockBuilder f = [policy_, keys_, start_, result_, filter_offsets_];
\* a NULL filter_block is the one with policy_ = "none"
NewFilterBlockBuilder(policy) ==
  [policy_ |-> policy, keys_ |-> <<>>, start_ |-> <<>>, result_ |-> <<>>,
   filter_offsets_ |-> <<>>]

FilterBlockBuilder_GenerateFilter(f) ==
  LET num_keys == Len(f.start_)
      start == Append(f.start_, Len(f.keys_))
      tmp_keys == [i \in 1 .. num_keys |-> SubSeq(f.keys_, start[i] + 1, start[i + 1])]
  IN IF num_keys = 0
     THEN [f EXCEPT !.filter_offsets_ = Append(@, Len(f.result_))]
     ELSE [f EXCEPT !.filter_offsets_ = Append(@, Len(f.result_)),
                    !.result_ = @ \o FilterPolicy_CreateFilter(f.policy_, tmp_keys),
                    !.keys_ = <<>>,
                    !.start_ = <<>>]

RECURSIVE FilterBlockBuilder_StartBlockEager(_, _)
\* a StartBlock that generates one filter more than the offset has reached
FilterBlockBuilder_StartBlockEager(f, block_offset) ==
  IF block_offset \div 2 ^ kFilterBaseLg >= Len(f.filter_offsets_)
  THEN FilterBlockBuilder_StartBlockEager(FilterBlockBuilder_GenerateFilter(f),
                                          block_offset)
  ELSE f

RECURSIVE FilterBlockBuilder_StartBlock(_, _)
\* kFilterBase is 1 << kFilterBaseLg
FilterBlockBuilder_StartBlock(f, block_offset) ==
  IF block_offset \div 2 ^ kFilterBaseLg > Len(f.filter_offsets_)
  THEN FilterBlockBuilder_StartBlock(FilterBlockBuilder_GenerateFilter(f), block_offset)
  ELSE f

FilterBlockBuilder_AddKey(f, key) ==
  [f EXCEPT !.start_ = Append(@, Len(f.keys_)), !.keys_ = @ \o key]

\* FilterBlockBuilder::Finish: the builder afterwards; result_ is the block
FilterBlockBuilder_Finish(f) ==
  LET g == IF f.start_ # <<>> THEN FilterBlockBuilder_GenerateFilter(f) ELSE f
      array_offset == Len(g.result_)
  IN [g EXCEPT !.result_ = @ \o PutFixed32s(g.filter_offsets_)
                             \o EncodeFixed32(array_offset) \o <<kFilterBaseLg>>]

\* FilterBlockReader fr = [policy_, data_, offset_, num_, base_lg_], offset_
\* counted from data_; a NULL reader is NoFilterBlockReader
NoFilterBlockReader ==
  [policy_ |-> "none", data_ |-> <<>>, offset_ |-> 0, num_ |-> 0, base_lg_ |-> 0]

NewFilterBlockReader(policy, contents) ==
  LET n == Len(contents)
      last_word == DecodeFixed32(SubSeq(contents, n - 4, n - 1))
      empty == [policy_ |-> policy, data_ |-> <<>>, offset_ |-> 0, num_ |-> 0,
                base_lg_ |-> 0]
  IN IF n < 5 THEN empty
     ELSE IF last_word > n - 5 THEN [empty EXCEPT !.base_lg_ = contents[n]]
     ELSE [policy_ |-> policy, data_ |-> contents, offset_ |-> last_word,
           num_ |-> (n - 5 - last_word) \div 4, base_lg_ |-> contents[n]]

FilterBlockReader_KeyMayMatch(fr, block_offset, key) ==
  LET index == block_offset \div 2 ^ fr.base_lg_
      start == DecodeFixed32(SubSeq(fr.data_, fr.offset_ + index * 4 + 1,
                                    fr.offset_ + index * 4 + 4))
      limit == DecodeFixed32(SubSeq(fr.data_, fr.offset_ + index * 4 + 5,
                                    fr.offset_ + index * 4 + 8))
  IN IF index < fr.num_
     THEN IF start <= limit /\ limit <= fr.offset_
          THEN FilterPolicy_KeyMayMatch(fr.policy_, key, SubSeq(fr.data_, start + 1, limit))
          ELSE IF start = limit THEN FALSE
          ELSE TRUE
     ELSE TRUE

(***************************************************************************)
(* TableBuilder: table/table_builder.cc                                    *)
(***************************************************************************)
\* The WritableFile the builder appends to (include/leveldb/env.h) is the
\* bytes appended so far, file, with the environment behind it, env:
\* env.ok more Append or Flush calls succeed and then one call fails (no
\* call fails when env.ok is -1); the failing call returns IOError and
\* leaves the bytes alone, the calls after it succeed again.  env.s and
\* env.size remember the status the failing call returned and the size of
\* the file at that time.
NoFailure == -1

File_Fails(r) == r.env.ok = 0

File_Failed(r) ==
  [r EXCEPT !.status = "IOError",
            !.env = [ok |-> NoFailure, s |-> "IOError", size |-> Len(r.file)]]

\* r->status = r->file->Append(data)
File_Append(r, data) ==
  IF File_Fails(r) THEN File_Failed(r)
  ELSE [r EXCEPT !.file = @ \o data, !.status = "OK",
                 !.env.ok = IF @ > 0 THEN @ - 1 ELSE @]

\* r->status = r->file->Flush()
File_Flush(r) ==
  IF File_Fails(r) THEN File_Failed(r)
  ELSE [r EXCEPT !.status = "OK", !.env.ok = IF @ > 0 THEN @ - 1 ELSE @]

\* options = [comparator, block_size, block_restart_interval, filter_policy];
\* compression is kNoCompression.
NewTableBuilder(opt, ok) ==
  LET f == NewFilterBlockBuilder(opt.filter_policy)
  IN [options |-> opt,
      file |-> <<>>,
      env |-> [ok |-> ok, s |-> "", size |-> 0],
      offset |-> 0,
      status |-> "OK",
      data_block |-> NewBlockBuilder,
      index_block |-> NewBlockBuilder,
      last_key |-> <<>>,
      num_entries |-> 0,
      closed |-> FALSE,
      filter_block |-> IF opt.filter_policy = "none" THEN f
                       ELSE FilterBlockBuilder_StartBlock(f, 0),
      pending_index_entry |-> FALSE,
      pending_handle |-> [offset_ |-> 0, size_ |-> 0]]

\* index_block_options.block_restart_interval
IndexRestartInterval == 1

\* a WriteRawBlock that appends the trailer whatever the first Append returned
TableBuilder_WriteRawBlockOn(r, block_contents, type) ==
  LET Done(r2) ==
        IF r2.status = "OK"
        THEN [r2 EXCEPT !.offset = @ + Len(block_contents) + kBlockTrailerSize]
        ELSE r2
      Trailer(r1) ==
        Done(File_Append(r1, <<type>> \o EncodeFixed32(
               crc32c_Mask(crc32c_Extend(block_contents, <<type>>)))))
  IN [r |-> Trailer(File_Append(r, block_contents)),
      handle |-> [offset_ |-> r.offset, size_ |-> Len(block_contents)]]

\* WriteRawBlock(block_contents, type, &handle): the Rep and the handle
TableBuilder_WriteRawBlock(r, block_contents, type) ==
  LET Done(r2) ==
        IF r2.status = "OK"
        THEN [r2 EXCEPT !.offset = @ + Len(block_contents) + kBlockTrailerSize]
        ELSE r2
      Trailer(r1) ==
        IF r1.status = "OK"
        THEN Done(File_Append(r1, <<type>> \o EncodeFixed32(
                    crc32c_Mask(crc32c_Extend(block_contents, <<type>>)))))
        ELSE r1
  IN [r |-> Trailer(File_Append(r, block_contents)),
      handle |-> [offset_ |-> r.offset, size_ |-> Len(block_contents)]]

\* WriteBlock(block, &handle): the Rep, the handle and *block after Reset
TableBuilder_WriteBlock(r, block) ==
  LET Written(w) == [r |-> w.r, handle |-> w.handle, block |-> NewBlockBuilder]
  IN Written(TableBuilder_WriteRawBlock(r, BlockBuilder_Finish(block).buffer_,
                                        kNoCompression))

\* WriteBlock(block, &handle) with options.compression = kSnappyCompression.
\* snappy is what port::Snappy_Compress(raw, &compressed_output) did:
\* snappy.ok what it returned, snappy.output the bytes it left in
\* compressed_output
TableBuilder_WriteBlockSnappy(r, block, snappy) ==
  LET Written(w) == [r |-> w.r, handle |-> w.handle, block |-> NewBlockBuilder]
      Choose(raw) ==
        IF snappy.ok /\ Len(snappy.output) < Len(raw) - (Len(raw) \div 8)
        THEN Written(TableBuilder_WriteRawBlock(r, snappy.output, kSnappyCompression))
        ELSE Written(TableBuilder_WriteRawBlock(r, raw, kNoCompression))
  IN Choose(BlockBuilder_Finish(block).buffer_)

\* a Flush that leaves the index entry of the block it wrote to nobody
TableBuilder_FlushNoPending(r) ==
  LET Written(w) == [w.r EXCEPT !.data_block = w.block, !.pending_handle = w.handle]
  IN IF r.status # "OK" \/ BlockBuilder_empty(r.data_block) THEN r
     ELSE Written(TableBuilder_WriteBlock(r, r.data_block))

TableBuilder_Flush(r) ==
  LET Started(r2) ==
        IF r2.filter_block.policy_ # "none"
        THEN [r2 EXCEPT !.filter_block = FilterBlockBuilder_StartBlock(@, r2.offset)]
        ELSE r2
      Synced(r1) ==
        IF r1.status = "OK"
        THEN Started(File_Flush([r1 EXCEPT !.pending_index_entry = TRUE]))
        ELSE Started(r1)
      Written(w) ==
        Synced([w.r EXCEPT !.data_block = w.block, !.pending_handle = w.handle])
  IN IF r.status # "OK" THEN r
     ELSE IF BlockBuilder_empty(r.data_block) THEN r
     ELSE Written(TableBuilder_WriteBlock(r, r.data_block))

\* index_block.Add(key, the encoding of pending_handle), key the new last_key
TableBuilder_AddIndexEntry(r, key) ==
  [r EXCEPT !.last_key = key,
            !.index_block = BlockBuilder_Add(@, IndexRestartInterval, key,
                                             BlockHandle_EncodeTo(r.pending_handle)),
            !.pending_index_entry = FALSE]

TableBuilder_Add(r, key, value) ==
  LET Flushed(r3) ==
        IF BlockBuilder_CurrentSizeEstimate(r3.data_block) >= r.options.block_size
        THEN TableBuilder_Flush(r3)
        ELSE r3
      Added(r1) ==
        Flushed([r1 EXCEPT
                   !.filter_block = IF @.policy_ # "none"
                                    THEN FilterBlockBuilder_AddKey(@, key) ELSE @,
                   !.last_key = key,
                   !.num_entries = @ + 1,
                   !.data_block = BlockBuilder_Add(@, r.options.block_restart_interval,
                                                   key, value)])
  IN IF r.status # "OK" THEN r
     ELSE IF r.pending_index_entry
     THEN Added(TableBuilder_AddIndexEntry(r,
                  Comparator_FindShortestSeparator(r.options.comparator, r.last_key, key)))
     ELSE Added(r)

\* "filter." followed by filter_policy->Name(), which is "t"
MetaindexFilterKey == <<102, 105, 108, 116, 101, 114, 46>> \o <<116>>

TableBuilder_Finish(r) ==
  LET FooterWritten(r5) ==
        IF r5.status = "OK" THEN [r5 EXCEPT !.offset = @ + kEncodedLength] ELSE r5
      WriteFooter(r4, metaindex_block_handle, index_block_handle) ==
        IF r4.status = "OK"
        THEN FooterWritten(File_Append(r4, Footer_EncodeTo(
                             [metaindex_handle_ |-> metaindex_block_handle,
                              index_handle_ |-> index_block_handle])))
        ELSE r4
      IndexWritten(w, metaindex_block_handle) ==
        WriteFooter([w.r EXCEPT !.index_block = w.block], metaindex_block_handle, w.handle)
      WriteIndex(r3, metaindex_block_handle) ==
        IndexWritten(TableBuilder_WriteBlock(r3, r3.index_block), metaindex_block_handle)
      Index(r2, metaindex_block_handle) ==
        IF r2.status # "OK" THEN r2
        ELSE IF r2.pending_index_entry
        THEN WriteIndex(TableBuilder_AddIndexEntry(r2,
                          Comparator_FindShortSuccessor(r.options.comparator, r2.last_key)),
                        metaindex_block_handle)
        ELSE WriteIndex(r2, metaindex_block_handle)
      MetaWritten(w) == Index(w.r, w.handle)
      Meta(r1, filter_block_handle) ==
        IF r1.status # "OK" THEN r1
        ELSE IF r1.filter_block.policy_ # "none"
        THEN MetaWritten(TableBuilder_WriteBlock(r1,
               BlockBuilder_Add(NewBlockBuilder, r.options.block_restart_interval,
                                MetaindexFilterKey,
                                BlockHandle_EncodeTo(filter_block_handle))))
        ELSE MetaWritten(TableBuilder_WriteBlock(r1, NewBlockBuilder))
      FilterWritten(w) == Meta(w.r, w.handle)
      WriteFilter(r1) ==
        FilterWritten(TableBuilder_WriteRawBlock(r1, r1.filter_block.result_,
                                                 kNoCompression))
      Flushed(r1) ==
        IF r1.status = "OK" /\ r1.filter_block.policy_ # "none"
        THEN WriteFilter([r1 EXCEPT !.filter_block = FilterBlockBuilder_Finish(@)])
        ELSE Meta(r1, [offset_ |-> 0, size_ |-> 0])
  IN Flushed([TableBuilder_Flush(r) EXCEPT !.closed = TRUE])

(***************************************************************************)
(* Reading a table: table/format.cc, table/table.cc.  table/block.cc is    *)
(* not part of the sources at hand; the block reader follows the format    *)
(* that BlockBuilder writes and the seek of the block iterator.            *)
(***************************************************************************)
\* port::Snappy_GetUncompressedLength and port::Snappy_Uncompress (port/ is
\* not part of the sources at hand): compressed data begins with the length
\* of the uncompressed data; here the uncompressed bytes follow as they are.
\* ok is FALSE for data that is not of this form
Snappy_Uncompress(data) ==
  IF data # <<>> /\ data[1] = Len(data) - 1
  THEN [ok |-> TRUE, output |-> Tail(data)]
  ELSE [ok |-> FALSE, output |-> <<>>]

\* the result of ReadBlock for a block of type kSnappyCompression
Uncompressed(u) ==
  IF u.ok THEN [s |-> "OK", data |-> u.output, cachable |-> TRUE]
  ELSE [s |-> "Corruption: corrupted compressed block contents", data |-> <<>>,
        cachable |-> FALSE]

\* a ReadBlock that takes every type but kNoCompression and
\* kSnappyCompression for a kind of compression that is not supported
ReadBlockNotSupported(file, verify_checksums, handle) ==
  LET n == handle.size_
      Check(contents) ==
        IF Len(contents) # n + kBlockTrailerSize
        THEN [s |-> "Corruption: truncated block read", data |-> <<>>, cachable |-> FALSE]
        ELSE IF verify_checksums
                /\ crc32c_Value(SubSeq(contents, 1, n + 1))
                   # crc32c_Unmask(DecodeFixed32(SubSeq(contents, n + 2, n + 5)))
        THEN [s |-> "Corruption: block checksum mismatch", data |-> <<>>,
              cachable |-> FALSE]
        ELSE IF contents[n + 1] = kNoCompression
        THEN [s |-> "OK", data |-> SubSeq(contents, 1, n), cachable |-> TRUE]
        ELSE IF contents[n + 1] = kSnappyCompression
        THEN Uncompressed(Snappy_Uncompress(SubSeq(contents, 1, n)))
        ELSE [s |-> "NotSupported: bad block type", data |-> <<>>, cachable |-> FALSE]
  IN Check(SubSeq(file, handle.offset_ + 1,
                  Min(handle.offset_ + n + kBlockTrailerSize, Len(file))))

\* a ReadBlock that never verifies the checksum
ReadBlockUnverified(file, verify_checksums, handle) ==
  LET n == handle.size_
      Check(contents) ==
        IF Len(contents) # n + kBlockTrailerSize
        THEN [s |-> "Corruption: truncated block read", data |-> <<>>, cachable |-> FALSE]
        ELSE IF contents[n + 1] = kNoCompression
        THEN [s |-> "OK", data |-> SubSeq(contents, 1, n), cachable |-> TRUE]
        ELSE IF contents[n + 1] = kSnappyCompression
        THEN Uncompressed(Snappy_Uncompress(SubSeq(contents, 1, n)))
        ELSE [s |-> "Corruption: bad block type", data |-> <<>>, cachable |-> FALSE]
  IN Check(SubSeq(file, handle.offset_ + 1,
                  Min(handle.offset_ + n + kBlockTrailerSize, Len(file))))

\* ReadBlock(file, options, handle, &result): the status, result->data and
\* result->cachable.  file->Read fills the buffer it is given (the file is
\* not memory mapped), so an uncompressed block is cachable.
ReadBlock(file, verify_checksums, handle) ==
  LET n == handle.size_
      Check(contents) ==
        IF Len(contents) # n + kBlockTrailerSize
        THEN [s |-> "Corruption: truncated block read", data |-> <<>>, cachable |-> FALSE]
        ELSE IF verify_checksums
                /\ crc32c_Value(SubSeq(contents, 1, n + 1))
                   # crc32c_Unmask(DecodeFixed32(SubSeq(contents, n + 2, n + 5)))
        THEN [s |-> "Corruption: block checksum mismatch", data |-> <<>>,
              cachable |-> FALSE]
        ELSE IF contents[n + 1] = kNoCompression
        THEN [s |-> "OK", data |-> SubSeq(contents, 1, n), cachable |-> TRUE]
        ELSE IF contents[n + 1] = kSnappyCompression
        THEN Uncompressed(Snappy_Uncompress(SubSeq(contents, 1, n)))
        ELSE [s |-> "Corruption: bad block type", data |-> <<>>, cachable |-> FALSE]
  IN Check(SubSeq(file, handle.offset_ + 1,
                  Min(handle.offset_ + n + kBlockTrailerSize, Len(file))))

\* Block: the restart array at the end of the contents
Block_NumRestarts(data) == DecodeFixed32(SubSeq(data, Len(data) - 3, Len(data)))
Block_restart_offset(data) == Len(data) - (1 + Block_NumRestarts(data)) * 4
Block_GetRestartPoint(data, index) ==
  LET At(pos) == DecodeFixed32(SubSeq(data, pos + 1, pos + 4))
  IN At(Block_restart_offset(data) + index * 4)

\* the entry at offset of the block, after an entry with key last_key:
\* whether it decodes, its key and value, the offset of the next entry
Block_ParseNextKey(data, offset, last_key) ==
  LET Bad(limit) == [ok |-> FALSE, key |-> <<>>, value |-> <<>>, next |-> limit]
      Lengths(limit, shared, non_shared, value_length) ==
        IF ~value_length.ok THEN Bad(limit)
        ELSE IF Len(last_key) < shared.value
                \/ Len(value_length.rest) < non_shared.value + value_length.value
        THEN Bad(limit)
        ELSE [ok |-> TRUE,
              key |-> SubSeq(last_key, 1, shared.value)
                      \o SubSeq(value_length.rest, 1, non_shared.value),
              value |-> SubSeq(value_length.rest, non_shared.value + 1,
                               non_shared.value + value_length.value),
              next |-> limit - Len(value_length.rest)
                       + non_shared.value + value_length.value]
      NonShared(limit, shared, non_shared) ==
        IF ~non_shared.ok THEN Bad(limit)
        ELSE Lengths(limit, shared, non_shared,
                     GetVarint32Ptr(non_shared.rest, Len(non_shared.rest)))
      Shared(limit, shared) ==
        IF ~shared.ok THEN Bad(limit)
        ELSE NonShared(limit, shared, GetVarint32Ptr(shared.rest, Len(shared.rest)))
      Within(limit) ==
        IF offset >= limit THEN Bad(limit)
        ELSE Shared(limit, GetVarint32Ptr(SubSeq(data, offset + 1, limit), limit - offset))
  IN Within(Block_restart_offset(data))

RECURSIVE Block_SeekRestart(_, _, _, _, _)
\* the binary search for the last restart point whose key is <= target
Block_SeekRestart(data, cmp, target, left, right) ==
  LET Probe(mid, e) ==
        IF ~e.ok THEN left
        ELSE IF Comparator_Compare(cmp, e.key, target) <= 0
        THEN Block_SeekRestart(data, cmp, target, mid, right)
        ELSE Block_SeekRestart(data, cmp, target, left, mid - 1)
      At(mid) == Probe(mid, Block_ParseNextKey(data, Block_GetRestartPoint(data, mid), <<>>))
  IN IF left < right THEN At((left + right + 1) \div 2) ELSE left

RECURSIVE Block_SeekScan(_, _, _, _, _)
\* the linear scan from offset on for the first entry with key >= target
Block_SeekScan(data, cmp, target, offset, last_key) ==
  LET Parsed(e) ==
        IF ~e.ok THEN [valid |-> FALSE, key |-> <<>>, value |-> <<>>]
        ELSE IF Comparator_Compare(cmp, e.key, target) >= 0
        THEN [valid |-> TRUE, key |-> e.key, value |-> e.value]
        ELSE Block_SeekScan(data, cmp, target, e.next, e.key)
  IN Parsed(Block_ParseNextKey(data, offset, last_key))

\* Block::NewIterator(cmp) and Seek(target) on it: Valid(), key(), value()
Block_Seek(data, cmp, target) ==
  LET From(left) ==
        Block_SeekScan(data, cmp, target, Block_GetRestartPoint(data, left), <<>>)
      Restarts(num_restarts) ==
        IF num_restarts = 0 \/ Len(data) < (1 + num_restarts) * 4
        THEN [valid |-> FALSE, key |-> <<>>, value |-> <<>>]
        ELSE From(Block_SeekRestart(data, cmp, target, 0, num_restarts - 1))
  IN IF Len(data) < 4 THEN [valid |-> FALSE, key |-> <<>>, value |-> <<>>]
     ELSE Restarts(Block_NumRestarts(data))

RECURSIVE Block_EntriesFrom(_, _, _)
\* the entries an iteration visits from the entry at offset to the end of the
\* block (SeekToFirst is offset 0 with no last key)
Block_EntriesFrom(data, offset, last_key) ==
  LET Parsed(e) ==
        IF ~e.ok THEN <<>>
        ELSE <<[key |-> e.key, value |-> e.value]>> \o Block_EntriesFrom(data, e.next, e.key)
  IN Parsed(Block_ParseNextKey(data, offset, last_key))

\* Table::ReadFilter: rep_->filter
Table_ReadFilter(opt, file, verify, filter_handle_value) ==
  LET Read(block) ==
        IF block.s # "OK" THEN NoFilterBlockReader
        ELSE NewFilterBlockReader(opt.filter_policy, block.data)
      Decoded(h) ==
        IF h.s # "OK" THEN NoFilterBlockReader
        ELSE Read(ReadBlock(file, verify, h.handle))
  IN Decoded(BlockHandle_DecodeFrom(filter_handle_value))

\* Table::ReadMeta: rep_->filter
Table_ReadMeta(opt, file, verify, footer) ==
  LET Sought(iter) ==
        IF iter.valid /\ iter.key = MetaindexFilterKey
        THEN Table_ReadFilter(opt, file, verify, iter.value)
        ELSE NoFilterBlockReader
      Read(contents) ==
        IF contents.s # "OK" THEN NoFilterBlockReader
        ELSE Sought(Block_Seek(contents.data, "bytewise", MetaindexFilterKey))
  IN IF opt.filter_policy = "none" THEN NoFilterBlockReader
     ELSE Read(ReadBlock(file, verify, footer.metaindex_handle_))

\* options.block_cache, as far as Table uses a Cache (include/leveldb/cache.h):
\* the set of the entries inserted, each a key with the block it maps to, at
\* most one for a key.  A handle is a set of entries: the entry found, or no
\* entry (NULL).  The cache is large enough to keep every block of the table.
Cache_Lookup(cache, key) == {e \in cache : e.key = key}

Cache_Value(cache, handle) == (CHOOSE e \in handle : TRUE).value

Cache_Insert(cache, key, value) ==
  (cache \ Cache_Lookup(cache, key)) \cup {[key |-> key, value |-> value]}

\* block_cache->NewId() of the one table that uses the cache
FirstCacheId == 1

NoTable ==
  [s |-> "closed", options |-> [comparator |-> "bytewise", block_size |-> 0,
                                block_restart_interval |-> 0, filter_policy |-> "none",
                                block_cache |-> FALSE],
   file |-> <<>>, metaindex_handle |-> [offset_ |-> 0, size_ |-> 0],
   index_block |-> <<>>, filter |-> NoFilterBlockReader,
   cache_id |-> 0, block_cache |-> {}]

\* Table::Open(options, file, size, &table): the status with the Rep of *table
Table_Open(opt, paranoid_checks, file, size) ==
  LET Read(footer, index_block_contents) ==
        IF index_block_contents.s # "OK"
        THEN [NoTable EXCEPT !.s = index_block_contents.s]
        ELSE [s |-> "OK", options |-> opt, file |-> file,
              metaindex_handle |-> footer.metaindex_handle_,
              index_block |-> index_block_contents.data,
              filter |-> Table_ReadMeta(opt, file, paranoid_checks, footer),
              cache_id |-> IF opt.block_cache THEN FirstCacheId ELSE 0,
              block_cache |-> {}]
      Decoded(footer) ==
        IF footer.s # "OK" THEN [NoTable EXCEPT !.s = footer.s]
        ELSE Read(footer, ReadBlock(file, paranoid_checks, footer.index_handle_))
  IN IF size < kEncodedLength
     THEN [NoTable EXCEPT !.s = "Corruption: file is too short to be an sstable"]
     ELSE Decoded(Footer_DecodeFrom(SubSeq(file, size - kEncodedLength + 1, size)))

\* the key of a data block in the block cache: cache_id, then the offset
Table_CacheKey(t, handle) ==
  EncodeFixed64(U64(t.cache_id)) \o EncodeFixed64(U64(handle.offset_))

\* Table::BlockReader(arg, options, index_value) with options =
\* [verify_checksums, fill_cache], and Seek(k) on the iterator it returns (an
\* error iterator is not Valid); the iterator is deleted after the Seek, which
\* releases the cache handle.  from_file tells whether ReadBlock was called.
Table_BlockReaderSeek(t, options, index_value, k) ==
  LET CacheKey(handle) == Table_CacheKey(t, handle)
      Error(s, from_file) ==
        [valid |-> FALSE, key |-> <<>>, value |-> <<>>, s |-> s,
         block_cache |-> t.block_cache, from_file |-> from_file]
      Sought(iter, block_cache, from_file) ==
        [valid |-> iter.valid, key |-> iter.key, value |-> iter.value, s |-> "OK",
         block_cache |-> block_cache, from_file |-> from_file]
      Read(contents) ==
        IF contents.s # "OK" THEN Error(contents.s, TRUE)
        ELSE Sought(Block_Seek(contents.data, t.options.comparator, k),
                    t.block_cache, TRUE)
      ReadAndInsert(handle, contents) ==
        IF contents.s # "OK" THEN Error(contents.s, TRUE)
        ELSE Sought(Block_Seek(contents.data, t.options.comparator, k),
                    IF contents.cachable /\ options.fill_cache
                    THEN Cache_Insert(t.block_cache, CacheKey(handle), contents.data)
                    ELSE t.block_cache,
                    TRUE)
      Looked(handle, cache_handle) ==
        IF cache_handle # {}
        THEN Sought(Block_Seek(Cache_Value(t.block_cache, cache_handle),
                               t.options.comparator, k),
                    t.block_cache, FALSE)
        ELSE ReadAndInsert(handle, ReadBlock(t.file, options.verify_checksums, handle))
      Decoded(h) ==
        IF h.s # "OK" THEN Error(h.s, FALSE)
        ELSE IF t.options.block_cache
        THEN Looked(h.handle, Cache_Lookup(t.block_cache, CacheKey(h.handle)))
        ELSE Read(ReadBlock(t.file, options.verify_checksums, h.handle))
  IN Decoded(BlockHandle_DecodeFrom(index_value))

\* Table::InternalGet(options, k, arg, saver): the status and the calls of
\* (*saver)(arg, key, value) it made, in order; the block cache afterwards,
\* the handle of the data block it asked BlockReader for (needed) and
\* whether that block was read from the file
Table_InternalGet(t, options, k) ==
  LET None ==
        [s |-> "OK", saved |-> <<>>, block_cache |-> t.block_cache, needed |-> FALSE,
         handle |-> [offset_ |-> 0, size_ |-> 0], from_file |-> FALSE]
      Sought(block_iter, handle) ==
        [s |-> block_iter.s,
         saved |-> IF block_iter.valid
                   THEN <<[key |-> block_iter.key, value |-> block_iter.value]>>
                   ELSE <<>>,
         block_cache |-> block_iter.block_cache,
         needed |-> handle.s = "OK",
         handle |-> handle.handle,
         from_file |-> block_iter.from_file]
      Filtered(iiter, handle) ==
        IF t.filter.policy_ # "none" /\ handle.s = "OK"
           /\ ~FilterBlockReader_KeyMayMatch(t.filter, handle.handle.offset_, k)
        THEN None
        ELSE Sought(Table_BlockReaderSeek(t, options, iiter.value, k), handle)
      Index(iiter) ==
        IF ~iiter.valid THEN None
        ELSE Filtered(iiter, BlockHandle_DecodeFrom(iiter.value))
  IN Index(Block_Seek(t.index_block, t.options.comparator, k))

(***************************************************************************)
(* A table built, finished, opened and read                                *)
(***************************************************************************)
MaxEntries == 3
MaxKeySequence == 2

\* the user keys of a table: with and without a common prefix, with first
\* bytes that leave room for a shorter separator and that do not
TableUserKeys == {<<1>>, <<1, 1>>, <<1, 2>>, <<3>>, <<255>>}

\* the keys given to the builder: user keys under the bytewise comparator,
\* internal keys (user key, sequence, kTypeValue) under the internal one
TableKeys(cmp) ==
  IF cmp = "internal"
  THEN {u \o EncodeFixed64(PackSequenceAndType(U64(q), kTypeValue)) :
          u \in {<<1, 1>>, <<1, 2>>, <<3>>}, q \in 1 .. MaxKeySequence}
  ELSE TableUserKeys

\* the length of a long value: a block that holds one is longer than the
\* range of file offsets of one filter
LongValueLen == 30

\* the value added with a key: empty or long
TableValueOf(key) ==
  IF SeqSum(key) % 2 = 1 THEN <<>> ELSE [i \in 1 .. LongValueLen |-> SeqSum(key) % 256]

\* an InternalFilterPolicy goes with internal keys only
TableOptions ==
  {opt \in [comparator : {"bytewise", "internal"},
            block_size : {1, 20, 40},
            block_restart_interval : {1, 2},
            filter_policy : {"none", "test", "internal"},
            block_cache : {FALSE}] :
     opt.filter_policy = "internal" => opt.comparator = "internal"}

\* the options of the tables read through a block cache
CachedTableOptions ==
  [comparator : {"bytewise"}, block_size : {1, 40}, block_restart_interval : {2},
   filter_policy : {"none"}, block_cache : {TRUE}]

\* the options of the tables built on a failing file
FailingTableOptions ==
  {opt \in TableOptions : opt.comparator = "bytewise" /\ opt.block_size # 20
                          /\ opt.block_restart_interval = 2}

\* the file calls that can succeed before the one that fails
MaxFileOps == 10

DefaultTableOptions ==
  [comparator |-> "bytewise", block_size |-> 40, block_restart_interval |-> 2,
   filter_policy |-> "none", block_cache |-> FALSE]

\* the checksum stored after the block at handle is not the checksum of the
\* block's contents and type
CrcMismatch(file, handle) ==
  crc32c_Value(SubSeq(file, handle.offset_ + 1, handle.offset_ + handle.size_ + 1))
    # crc32c_Unmask(DecodeFixed32(SubSeq(file, handle.offset_ + handle.size_ + 2,
                                         handle.offset_ + handle.size_ + 5)))

\* failed is the set of data blocks (by offset) whose last read fetched them
\* from the file with verify_checksums and found a wrong checksum; mismatch
\* tells whether the checksum of the block was wrong in the file at the time
\* of the Get, again whether the block was in failed before it
NoTableGet ==
  [k |-> <<>>, s |-> "none", saved |-> <<>>, verify_checksums |-> FALSE,
   needed |-> FALSE, handle |-> [offset_ |-> 0, size_ |-> 0], from_file |-> FALSE,
   mismatch |-> FALSE, again |-> FALSE, failed |-> {}]

\* new TableBuilder(opt, file) on an empty file that fails after ok calls
TableInitOn(opt, ok) ==
  /\ tb = NewTableBuilder(opt, ok)
  /\ tb_added = <<>>
  /\ tb_blocks = <<>>
  /\ tbl = NoTable
  /\ tbl_got = NoTableGet
  /\ tbl_damage = [kind |-> "none", pos |-> 0]

\* the data blocks written so far: the handle of each and the number of
\* entries added when it was written
BlocksAfter(wrote, r) ==
  IF wrote THEN Append(tb_blocks, [handle |-> r.pending_handle, upto |-> r.num_entries])
  ELSE tb_blocks

\* new TableBuilder(opt, file) on an empty file that never fails
TableInit(opt) == TableInitOn(opt, NoFailure)

TblAdd(key) ==
  /\ ~tb.closed
  /\ Len(tb_added) < MaxEntries
  /\ tb_added # <<>> =>
       Comparator_Compare(tb.options.comparator, key, tb_added[Len(tb_added)].key) > 0
  /\ tb' = TableBuilder_Add(tb, key, TableValueOf(key))
  /\ tb_added' = Append(tb_added, [key |-> key, value |-> TableValueOf(key)])
  /\ tb_blocks' = BlocksAfter(tb'.offset # tb.offset, tb')
  /\ UNCHANGED <<tbl, tbl_got, tbl_damage, notTable>>

TblFlush ==
  /\ ~tb.closed
  /\ tb' = TableBuilder_Flush(tb)
  /\ tb_blocks' = BlocksAfter(tb'.offset # tb.offset, tb')
  /\ UNCHANGED <<tb_added, tbl, tbl_got, tbl_damage, notTable>>

TblFinish ==
  /\ ~tb.closed
  /\ tb' = TableBuilder_Finish(tb)
  /\ tb_blocks' = BlocksAfter(TableBuilder_Flush(tb).offset # tb.offset, tb')
  /\ UNCHANGED <<tb_added, tbl, tbl_got, tbl_damage, notTable>>

TblOpen(paranoid_checks) ==
  /\ tb.closed
  /\ tb.status = "OK"
  /\ tbl.s = "closed"
  /\ tbl' = Table_Open(tb.options, paranoid_checks, tb.file, Len(tb.file))
  /\ UNCHANGED <<tb, tb_added, tb_blocks, tbl_got, tbl_damage, notTable>>

\* options = [verify_checksums, fill_cache]
TblGet(k, options) ==
  /\ tbl.s = "OK"
  /\ LET Got(g) ==
           /\ tbl_got' = [k |-> k, s |-> g.s, saved |-> g.saved,
                          verify_checksums |-> options.verify_checksums,
                          needed |-> g.needed, handle |-> g.handle,
                          from_file |-> g.from_file,
                          mismatch |-> g.needed /\ CrcMismatch(tbl.file, g.handle),
                          again |-> g.needed /\ g.handle.offset_ \in tbl_got.failed,
                          failed |->
                            IF ~g.needed THEN tbl_got.failed
                            ELSE IF g.from_file /\ options.verify_checksums
                                    /\ CrcMismatch(tbl.file, g.handle)
                            THEN tbl_got.failed \cup {g.handle.offset_}
                            ELSE tbl_got.failed \ {g.handle.offset_}]
           /\ tbl' = [tbl EXCEPT !.block_cache = g.block_cache]
     IN Got(Table_InternalGet(tbl, options, k))
  /\ UNCHANGED <<tb, tb_added, tb_blocks, tbl_damage, notTable>>

\* one byte of the i-th data block of the file is changed on disk, once: the
\* first byte of the block contents or the first byte of the stored checksum
TblFlipByte(i, in_crc) ==
  /\ tbl.s = "OK"
  /\ tbl_damage.kind = "none"
  /\ i \in 1 .. Len(tb_blocks)
  /\ LET Flip(pos) ==
           /\ tbl' = [tbl EXCEPT !.file[pos] = (@ + 1) % 256]
           /\ tbl_damage' = [kind |-> "flip", pos |-> pos]
     IN Flip(tb_blocks[i].handle.offset_
             + (IF in_crc THEN tb_blocks[i].handle.size_ + 2 ELSE 1))
  /\ UNCHANGED <<tb, tb_added, tb_blocks, tbl_got, notTable>>

\* the ReadOptions of a Get: fill_cache has its default
ReadOptions == [verify_checksums : BOOLEAN, fill_cache : {TRUE}]

TableNext ==
  \/ \E key \in TableKeys(tb.options.comparator) : TblAdd(key)
  \/ TblFlush
  \/ TblFinish
  \/ \E paranoid_checks \in BOOLEAN : TblOpen(paranoid_checks)
  \/ \E k \in TableKeys(tb.options.comparator), options \in ReadOptions :
       TblGet(k, options)

\* a table is built, opened with a block cache, damaged and read
TableCacheNext ==
  \/ \E key \in TableKeys(tb.options.comparator) : TblAdd(key)
  \/ TblFlush
  \/ TblFinish
  \/ \E paranoid_checks \in BOOLEAN : TblOpen(paranoid_checks)
  \/ \E i \in 1 .. MaxEntries, in_crc \in BOOLEAN : TblFlipByte(i, in_crc)
  \/ \E k \in TableKeys(tb.options.comparator), options \in ReadOptions :
       TblGet(k, options)

(***************************************************************************)
(* A BlockBuilder on its own                                               *)
(***************************************************************************)
MaxBlockEntries == 4
MaxBlockKeyLen == 3
MaxRestartInterval == 3

\* the keys added to a block: the byte strings over two bytes, the empty
\* one included, so that keys share prefixes of every length
BlockKeys == UNION {[1 .. n -> {1, 2}] : n \in 0 .. MaxBlockKeyLen}

\* the length of a value whose length takes two bytes as a varint32
VeryLongValueLen == 130

\* the value added with a key: empty, one byte or very long
BlockValueOf(key) ==
  IF SeqSum(key) % 3 = 0 THEN <<>>
  ELSE IF SeqSum(key) % 3 = 1 THEN <<SeqSum(key)>>
  ELSE [i \in 1 .. VeryLongValueLen |-> (SeqSum(key) + i) % 256]

\* BlockBuilder(&options) with options.block_restart_interval = interval
BlockInit(interval) ==
  bb = [interval |-> interval, b |-> NewBlockBuilder, added |-> <<>>]

BlkAdd(key) ==
  /\ ~bb.b.finished_
  /\ Len(bb.added) < MaxBlockEntries
  /\ bb.added # <<>> => Bytewise_Compare(key, bb.added[Len(bb.added)].key) > 0
  /\ bb' = [bb EXCEPT !.b = BlockBuilder_Add(@, bb.interval, key, BlockValueOf(key)),
                      !.added = Append(@, [key |-> key, value |-> BlockValueOf(key)])]
  /\ UNCHANGED notBlock

BlkFinish ==
  /\ ~bb.b.finished_
  /\ bb' = [bb EXCEPT !.b = BlockBuilder_Finish(@)]
  /\ UNCHANGED notBlock

\* Reset() after Finish(): the builder is used for the next block
BlkReset ==
  /\ bb.b.finished_
  /\ bb' = [bb EXCEPT !.b = NewBlockBuilder, !.added = <<>>]
  /\ UNCHANGED notBlock

BlockNext ==
  \/ \E key \in BlockKeys : BlkAdd(key)
  \/ BlkFinish
  \/ BlkReset

(***************************************************************************)
(* Claims about the skip list and the memtable                             *)
(***************************************************************************)
\* node x exists and its next_[0 .. level] have been stored to
Initialized(x, level) ==
  /\ x \in 1 .. Len(skip.node)
  /\ level + 1 <= Len(skip.node[x].next_)
  /\ \A l \in 0 .. level : skip.node[x].next_[l + 1] # Uninit

\* C4: while Insert runs store by store, every node that a level-l pointer
\* leads to is initialized at level l and all levels below, so the node a
\* reader stands on at a level, and the node the pointer it reads next leads
\* to, are initialized there; the reader never reads a pointer nothing was
\* stored to, also at the levels a raise of max_height_ has just opened
C4_ReaderSeesInitializedNodes ==
  /\ \A y \in 1 .. Len(skip.node) : \A l \in 0 .. Len(skip.node[y].next_) - 1 :
       LET x == skip.node[y].next_[l + 1]
       IN (x # NULL /\ x # Uninit) => Initialized(x, l)
  /\ skip_rd.pc # "undefined"
  /\ skip_rd.pc \in {"find", "iter"} =>
       /\ Initialized(skip_rd.x, skip_rd.level)
       /\ LET next == Node_Next(skip, skip_rd.x, skip_rd.level)
          IN next # NULL => Initialized(next, skip_rd.level)

\* a reader took the raised max_height_ and stands on head at the new top
\* level, which is still NULL because Insert has not linked the new node there
C4_Witness ==
  /\ skip_ins.pc # "idle"
  /\ skip_ins.height = GetMaxHeight(skip)
  /\ \A x \in 2 .. Len(skip.node) :
       x # skip_ins.x => Len(skip.node[x].next_) < skip_ins.height
  /\ skip_rd.pc = "find" /\ skip_rd.x = head_
  /\ skip_rd.level = skip_ins.height - 1
  /\ Node_Next(skip, head_, skip_rd.level) = NULL
  /\ \E l \in 0 .. skip_ins.height - 1 : skip.node[skip_ins.x].next_[l + 1] = Uninit

RECURSIVE Ascending(_, _)
\* the integers from .. to as a sequence
Ascending(from, to) ==
  IF from > to THEN <<>> ELSE <<from>> \o Ascending(from + 1, to)

\* C5: whenever no Insert is running, SeekToFirst and Next yield exactly the
\* inserted keys in strictly increasing order, and Contains(k) is true for
\* exactly the inserted keys, whatever the insertion order and node heights
C5_SortedIterationAndContains ==
  skip_ins.pc = "idle" =>
    /\ LET it == SkipList_Iterate(skip)
       IN /\ {it[i] : i \in 1 .. Len(it)} = SkipInserted
          /\ \A i \in 1 .. Len(it) - 1 : it[i] < it[i + 1]
    /\ \A k \in 1 .. SkipKeys : SkipList_Contains(skip, k) <=> k \in SkipInserted

\* all keys were inserted, not in increasing order and with different
\* heights, and the iteration yields them in increasing order
C5_Witness ==
  /\ skip_ins.pc = "idle"
  /\ Len(skip.node) = SkipKeys + 1
  /\ skip.node[2].key > skip.node[3].key
  /\ Len(skip.node[2].next_) # Len(skip.node[3].next_)
  /\ SkipList_Iterate(skip) = Ascending(1, SkipKeys)

\* the Add calls for user key k with a sequence number of at most s
Visible(k, s) ==
  {i \in 1 .. Len(mem_added) : mem_added[i].key = k /\ mem_added[i].s <= s}

\* C3: Get(LookupKey(k, S)) is decided by the entry for k with the largest
\* sequence number <= S: true with that entry's value for a Value, true with
\* status NotFound for a Deletion, false if there is no such entry
C3_GetDecidedByNewestVisible ==
  mem_got.valid =>
    LET vis == Visible(mem_got.key, mem_got.s)
    IN IF vis = {}
       THEN ~mem_got.res.ret /\ ~mem_got.res.assigned /\ mem_got.res.s = "OK"
       ELSE LET e == mem_added[CHOOSE i \in vis :
                                 \A j \in vis : mem_added[j].s <= mem_added[i].s]
            IN IF e.type = kTypeValue
               THEN /\ mem_got.res.ret /\ mem_got.res.assigned
                    /\ mem_got.res.value = e.value /\ mem_got.res.s = "OK"
               ELSE /\ mem_got.res.ret /\ ~mem_got.res.assigned
                    /\ mem_got.res.s = "NotFound"

\* three entries of one user key: a Get between the sequence numbers found
\* the Deletion below a newer Value and above an older one
C3_Witness ==
  /\ Len(mem_added) = 3
  /\ \A i \in 1 .. 3 : mem_added[i].key = mem_got.key
  /\ mem_got.valid /\ mem_got.s = 2
  /\ \E i, j, k \in 1 .. 3 :
       /\ mem_added[i].s = 3 /\ mem_added[i].type = kTypeValue
       /\ mem_added[j].s = 2 /\ mem_added[j].type = kTypeDeletion
       /\ mem_added[k].s = 1 /\ mem_added[k].type = kTypeValue
  /\ mem_got.res.ret /\ mem_got.res.s = "NotFound"

(***************************************************************************)
(* Claims about tables                                                     *)
(***************************************************************************)
\* the keys added to the table
AddedKeys == {tb_added[i].key : i \in 1 .. Len(tb_added)}

\* C6: on a table built from a strictly increasing key sequence (any block
\* size, with or without a filter policy) and then opened, InternalGet of an
\* added key calls the visitor exactly once, with that key and the value
\* added for it, and InternalGet of a key greater than every added key does
\* not call the visitor.
C6_GetFindsEveryAddedKey ==
  tbl_got.s # "none" =>
    /\ tbl_got.k \in AddedKeys =>
         /\ tbl_got.s = "OK"
         /\ Len(tbl_got.saved) = 1
         /\ tbl_got.saved[1].key = tbl_got.k
         /\ \E i \in 1 .. Len(tb_added) : tb_added[i] = tbl_got.saved[1]
    /\ (\A a \in AddedKeys : Comparator_Compare(tb.options.comparator, tbl_got.k, a) > 0)
         => tbl_got.saved = <<>>

\* a key of the second data block is found through the filter
C6_Witness ==
  /\ tb.options.filter_policy # "none"
  /\ Len(tb_blocks) >= 2
  /\ Len(tb_added) >= 2
  /\ tbl_got.k = tb_added[Len(tb_added)].key
  /\ tbl_got.saved = <<tb_added[Len(tb_added)]>>

\* a key beyond the last added one is looked up and not found
C6_WitnessBeyond ==
  /\ Len(tb_blocks) >= 2
  /\ tbl_got.s = "OK"
  /\ \A a \in AddedKeys : Comparator_Compare(tb.options.comparator, tbl_got.k, a) > 0
  /\ tbl_got.saved = <<>>

\* the index block of the finished file, as its footer locates it
IndexEntries ==
  Block_EntriesFrom(
    ReadBlock(tb.file, TRUE,
              Footer_DecodeFrom(SubSeq(tb.file, Len(tb.file) - kEncodedLength + 1,
                                       Len(tb.file))).index_handle_).data,
    0, <<>>)

\* the entries of the i-th data block written
EntriesOfBlock(i) ==
  SubSeq(tb_added, IF i = 1 THEN 1 ELSE tb_blocks[i - 1].upto + 1, tb_blocks[i].upto)

Finished == tb.closed /\ tb.status = "OK"

\* C7: after Finish the index block holds one entry per data block written,
\* in file order; the key of the i-th entry is >= the last key of data block
\* i and, when there is a block i+1, < the first key of that block, under
\* the table's comparator.
C7_IndexEntrySeparatesBlocks ==
  Finished =>
    /\ Len(IndexEntries) = Len(tb_blocks)
    /\ \A i \in 1 .. Len(tb_blocks) :
         /\ BlockHandle_DecodeFrom(IndexEntries[i].value).handle = tb_blocks[i].handle
         /\ Block_EntriesFrom(ReadBlock(tb.file, TRUE, tb_blocks[i].handle).data, 0, <<>>)
              = EntriesOfBlock(i)
         /\ i > 1 => tb_blocks[i].handle.offset_ > tb_blocks[i - 1].handle.offset_
         /\ Comparator_Compare(tb.options.comparator, IndexEntries[i].key,
                               tb_added[tb_blocks[i].upto].key) >= 0
         /\ i < Len(tb_blocks) =>
              Comparator_Compare(tb.options.comparator, IndexEntries[i].key,
                                 tb_added[tb_blocks[i].upto + 1].key) < 0

\* a finished table of internal keys with three blocks whose first index key
\* is a shortened separator, none of the keys added
C7_Witness ==
  /\ Finished
  /\ tb.options.comparator = "internal"
  /\ Len(tb_blocks) = 3
  /\ IndexEntries[1].key \notin AddedKeys
  /\ Len(IndexEntries[1].key) < Len(tb_added[1].key)

\* C13: for pairs with strictly increasing keys added to a BlockBuilder of
\* any restart interval, decoding the bytes Finish returns entry by entry,
\* each key being the first `shared` bytes of the key before it followed by
\* the stored unshared bytes, gives the pairs added, in the order added.
C13_BlockRoundTrip ==
  bb.b.finished_ => Block_EntriesFrom(bb.b.buffer_, 0, <<>>) = bb.added

\* a finished block of four entries with a restart point in the middle and
\* an entry after it that shares two bytes with the key before it
C13_Witness ==
  /\ bb.b.finished_
  /\ bb.interval = 2
  /\ Len(bb.added) = 4
  /\ Len(bb.b.restarts_) = 2
  /\ CommonPrefix(bb.added[3].key, bb.added[4].key, 0) = 2
  /\ bb.added[1].key = <<>>
  /\ Len(bb.added[2].value) = VeryLongValueLen

\* the reader of the filter block that Finish wrote
FinishedFilter == NewFilterBlockReader(tb.options.filter_policy, tb.filter_block.result_)

\* the index of the filter that covers file offset o
FilterIndex(o) == o \div 2 ^ kFilterBaseLg

\* C12: in a table finished with a filter policy, for every data block
\* written at file offset o and every key k added to that block, the filter
\* block has a filter number o / kFilterBase and KeyMayMatch(o, k) is true.
C12_BlockKeysInFilterOfOffset ==
  (Finished /\ tb.options.filter_policy # "none") =>
    \A i \in 1 .. Len(tb_blocks) :
      /\ FilterIndex(tb_blocks[i].handle.offset_) < FinishedFilter.num_
      /\ \A j \in 1 .. Len(EntriesOfBlock(i)) :
           FilterBlockReader_KeyMayMatch(FinishedFilter, tb_blocks[i].handle.offset_,
                                         EntriesOfBlock(i)[j].key)

\* two data blocks start in the range of filter 0, and the second of them
\* reaches over the whole range of filter 1, which is left empty: the third
\* block starts in the range of filter 2
C12_Witness ==
  /\ Finished /\ tb.options.filter_policy # "none"
  /\ Len(tb_blocks) = 3
  /\ FilterIndex(tb_blocks[1].handle.offset_) = 0
  /\ FilterIndex(tb_blocks[2].handle.offset_) = 0
  /\ FilterIndex(tb_blocks[3].handle.offset_) = 2
  /\ ~FilterBlockReader_KeyMayMatch(FinishedFilter, 2 ^ kFilterBaseLg, tb_added[1].key)

\* a block of two keys, and a key that the filter of another block rejects
C12_WitnessRejects ==
  /\ Finished /\ tb.options.filter_policy # "none"
  /\ \E i \in 1 .. Len(tb_blocks) : Len(EntriesOfBlock(i)) = 2
  /\ \E i \in 1 .. Len(tb_blocks), a \in AddedKeys :
       /\ FilterIndex(tb_blocks[i].handle.offset_) < FinishedFilter.num_ - 1
       /\ ~FilterBlockReader_KeyMayMatch(FinishedFilter, tb_blocks[i].handle.offset_, a)

\* the data block of the last Get is in the block cache
LastBlockCached == Cache_Lookup(tbl.block_cache, Table_CacheKey(tbl, tbl_got.handle)) # {}

\* the last Get fetched its data block from the file and the checksum
\* stored after the block did not match
FetchedDamagedBlock == tbl_got.needed /\ tbl_got.from_file /\ tbl_got.mismatch

C15_WitnessUnverified ==
  /\ FetchedDamagedBlock /\ ~tbl_got.verify_checksums
  /\ tbl_got.s = "OK"
  /\ LastBlockCached

\* C22: after any sequence of Add, Flush and Finish calls on a TableBuilder,
\* sequences in which a write to the file failed included, NumEntries() is
\* the number of Add() calls made so far.
C22_NumEntriesCountsAdds == tb.num_entries = Len(tb_added)

\* C11: once an Append or a Flush of the file has failed, status() is the
\* status that call returned and the file is as long as it was then, after
\* every later Add, Flush and Finish: the calls after the failure append
\* nothing and Finish returns the first error.
C11_FirstFileErrorSticks ==
  tb.env.s # "" => tb.status = tb.env.s /\ Len(tb.file) = tb.env.size

\* a write failed after the first data block; an Add after it was refused
\* and Finish has returned
C11_Witness ==
  /\ tb.env.s # "" /\ tb.env.size > 0
  /\ tb.status = "IOError"
  /\ Len(tb_added) > tb.num_entries
  /\ tb.closed

(***************************************************************************)
(* One LRUCache shard and one client                                       *)
(***************************************************************************)
ShardCapacity == 10

\* the keys A, B, C, ... are 1, 2, 3, ...; the client inserts them in this
\* order, each with charge 1, two more than the shard has room for
ShardKeys == 1 .. ShardCapacity + 2

\* lru.c is the shard with the heap of its handles; inserted is the number of
\* keys inserted so far; handle is the handle the last Insert returned while
\* the client has not released it; looked tells of the one Lookup the client
\* makes: its key, the number of keys inserted before it, the handle it
\* returned while held, and the number of keys inserted before the Release
NoLookup == [key |-> 0, at |-> -1, handle |-> NULL, released |-> -1]

LruInit(capacity) ==
  lru = [c |-> [hp |-> [e \in 1 .. capacity + 2 |-> NoHandle],
                sh |-> NewLRUCache_Shard(capacity)],
         inserted |-> 0, handle |-> NULL, looked |-> NoLookup]

\* Insert(key, hash, value, 1, deleter) of the next key
LruInsert ==
  /\ lru.inserted < lru.c.sh.capacity_ + 2
  /\ lru.handle = NULL
  /\ LET e == lru.inserted + 1
     IN lru' = [lru EXCEPT !.c = LRUCache_Insert(@, e, e, HashSlice(e), e, 1),
                           !.inserted = e,
                           !.handle = e]
  /\ UNCHANGED notLru

\* Release of the handle the last Insert returned
LruReleaseInserted ==
  /\ lru.handle # NULL
  /\ lru' = [lru EXCEPT !.c = LRUCache_Release(@, lru.handle), !.handle = NULL]
  /\ UNCHANGED notLru

\* Lookup(key, hash) of a key in the cache; the client keeps the handle
LruLookup(key) ==
  /\ lru.looked = NoLookup
  /\ lru.handle = NULL
  /\ LET r == LRUCache_Lookup(lru.c, key, HashSlice(key))
     IN /\ r.handle # NULL
        /\ lru' = [lru EXCEPT !.c = r.c,
                              !.looked = [key |-> key, at |-> lru.inserted,
                                          handle |-> r.handle, released |-> -1]]
  /\ UNCHANGED notLru

\* Release of the handle Lookup returned
LruReleaseLooked ==
  /\ lru.looked.handle # NULL
  /\ lru' = [lru EXCEPT !.c = LRUCache_Release(@, lru.looked.handle),
                        !.looked.handle = NULL,
                        !.looked.released = lru.inserted]
  /\ UNCHANGED notLru

LruNext ==
  \/ LruInsert
  \/ LruReleaseInserted
  \/ \E key \in ShardKeys : LruLookup(key)
  \/ LruReleaseLooked

\* Lookup finds the key in the shard
LruInCache(key) ==
  HandleTable_Lookup(lru.c.hp, lru.c.sh.table_, key, HashSlice(key)) # NULL

\* the entry of the key is out of the shard and its deleter was called
LruEvicted(key) ==
  /\ ~LruInCache(key)
  /\ lru.c.hp[key].st = "freed" /\ lru.c.hp[key].deleted = 1

\* A .. J were inserted and the handles released, A was looked up and the
\* handle kept, and K was inserted
LruPromoted ==
  /\ lru.inserted = lru.c.sh.capacity_ + 1
  /\ lru.looked.key = 1 /\ lru.looked.at = lru.c.sh.capacity_
  /\ lru.looked.released = -1

\* the same, then A's handle was released, and L was inserted
LruPromotedAndReleased ==
  /\ lru.inserted = lru.c.sh.capacity_ + 2
  /\ lru.looked.key = 1 /\ lru.looked.at = lru.c.sh.capacity_
  /\ lru.looked.released = lru.c.sh.capacity_ + 1

\* C16: in a shard of capacity 10 holding A .. J (charge 1 each, inserted in
\* that order, the handles released), after Lookup(A) with the handle kept,
\* Insert(K, 1) evicts B and no other entry, and A stays in the cache and is
\* readable through the handle.
C16_InsertEvictsOldestUnreferenced ==
  LruPromoted =>
    /\ LruEvicted(2)
    /\ \A key \in 1 .. lru.inserted : key # 2 => LruInCache(key)
    /\ lru.c.sh.usage_ = lru.c.sh.capacity_
    /\ lru.c.hp[lru.looked.handle].st = "live"
    /\ lru.c.hp[lru.looked.handle].key = 1
    /\ lru.c.hp[lru.looked.handle].value = 1

\* the state after Insert(K), K's handle released
C16_Witness ==
  /\ LruPromoted
  /\ lru.c.sh.capacity_ = ShardCapacity
  /\ lru.handle = NULL
  /\ LruEvicted(2) /\ LruInCache(1) /\ LruInCache(lru.inserted)

\* C17, as stated: continuing (A .. J inserted, A looked up and held, K
\* inserted so that B was evicted), after A's handle is released the next
\* Insert(L, 1) evicts A.
C17_ReleasedEntryEvictedNext ==
  LruPromotedAndReleased => LruEvicted(1)

\* C17, as the code has it: the Release makes A the newest entry of lru_, so
\* the next Insert(L, 1) evicts C, the oldest entry without a client handle,
\* and no other entry; A stays in the cache.
C17_ReleasedEntryIsNewest ==
  LruPromotedAndReleased =>
    /\ LruEvicted(3)
    /\ \A key \in 1 .. lru.inserted : key \notin {2, 3} => LruInCache(key)
    /\ lru.c.hp[1].st = "live" /\ lru.c.hp[1].in_cache

\* the state after Insert(L)
C17_Witness ==
  /\ LruPromotedAndReleased
  /\ lru.c.sh.capacity_ = ShardCapacity
  /\ LruEvicted(2) /\ LruEvicted(3) /\ LruInCache(1) /\ LruInCache(lru.inserted)

(***************************************************************************)
(* The lengths of the physical records of a log with 32 KiB blocks         *)
(***************************************************************************)
\* the payload lengths appended: none, the three of the scenario, and one
\* that fills a fresh block exactly
LengthsAdded == {0, 1000, 8000, 97270, 32 * 1024 - kHeaderSize}

\* lw.added are the payload lengths given to AddRecord so far, lw.records
\* the physical records written for each of them
LengthsInit(block_size) ==
  lw = [block_size |-> block_size, block_offset_ |-> 0, added |-> <<>>,
        records |-> <<>>]

LengthsAddRecord(n) ==
  /\ Len(lw.added) < MaxRecords
  /\ LET r == AddRecordLengths(lw.block_size, lw.block_offset_, n, TRUE)
     IN lw' = [lw EXCEPT !.block_offset_ = r.block_offset_,
                         !.added = Append(@, n),
                         !.records = Append(@, r.records)]
  /\ UNCHANGED notLengths

LengthsNext == \E n \in LengthsAdded : LengthsAddRecord(n)

RECURSIVE LengthsOfLog(_, _)
\* what AddRecordLengths gives for the payloads written (from the i-th on) to
\* a log with blocks of kBlockSize bytes: the bytes written and block_offset_
LengthsOfLog(i, w) ==
  IF i > Len(log_written) THEN w
  ELSE LET r == AddRecordLengths(kBlockSize, w.block_offset_, Len(log_written[i]), TRUE)
           RECURSIVE Bytes(_)
           Bytes(j) == IF j > Len(r.records) THEN 0
                       ELSE r.records[j].filled + kHeaderSize + r.records[j].length
                            + Bytes(j + 1)
       IN LengthsOfLog(i + 1, [size |-> w.size + Bytes(1),
                               block_offset_ |-> r.block_offset_])

\* the lengths agree with the bytes Writer::AddRecord writes
LengthsAgreeWithWriter ==
  log_damage.kind = "none" =>
    LengthsOfLog(1, [size |-> 0, block_offset_ |-> 0])
      = [size |-> Len(log_w.dest_), block_offset_ |-> log_w.block_offset_]

\* payloads of 1000 and of 97270 bytes were the first two appended to a log
\* with 32 KiB blocks
LengthsScenario ==
  /\ lw.block_size = 32 * 1024
  /\ Len(lw.added) >= 2
  /\ lw.added[1] = 1000 /\ lw.added[2] = 97270

\* C18, as stated: appending payloads of 1000, 97270 and 8000 bytes to a
\* fresh log with 32 KiB blocks writes the second payload as three physical
\* records: First with 32761 payload bytes, Middle with 32761, Last with
\* 31748.
C18_SecondPayloadFragments ==
  LengthsScenario =>
    /\ Len(lw.records[2]) = 3
    /\ lw.records[2][1].type = kFirstType /\ lw.records[2][1].length = 32761
    /\ lw.records[2][2].type = kMiddleType /\ lw.records[2][2].length = 32761
    /\ lw.records[2][3].type = kLastType /\ lw.records[2][3].length = 31748

\* C18, as the code has it: the first payload leaves 32768 - 1007 bytes of
\* the first block, so the second is written as three physical records:
\* First with 31754 payload bytes, Middle with 32761, Last with 32755.
C18_SecondPayloadFragmentsAfterFirst ==
  LengthsScenario =>
    /\ Len(lw.records[2]) = 3
    /\ lw.records[2][1].type = kFirstType /\ lw.records[2][1].length = 31754
    /\ lw.records[2][2].type = kMiddleType /\ lw.records[2][2].length = 32761
    /\ lw.records[2][3].type = kLastType /\ lw.records[2][3].length = 32755

\* the three payloads were appended; the third is one Full record in the
\* fourth block, after six zero bytes
C18_Witness ==
  /\ LengthsScenario
  /\ lw.added = <<1000, 97270, 8000>>
  /\ lw.records[1] = <<[type |-> kFullType, length |-> 1000, filled |-> 0]>>
  /\ lw.records[3] = <<[type |-> kFullType, length |-> 8000, filled |-> 6]>>

(***************************************************************************)
(* A Footer encoded, overwritten and decoded                               *)
(***************************************************************************)
MaxOverwrites == 2

\* the largest offset or size tried, 2^31 - 1
LargeHandleValue == 2 ^ 30 + (2 ^ 30 - 1)

\* offsets and sizes: one, two and five bytes as a varint
HandleValues == {0, 128, LargeHandleValue}

Footers ==
  [metaindex_handle_ : [offset_ : HandleValues, size_ : HandleValues],
   index_handle_ : [offset_ : HandleValues, size_ : HandleValues]]

\* the places overwritten: the last byte of the padding and the magic number
OverwritePlaces == kEncodedLength - 8 .. kEncodedLength

\* ft.bytes is the string EncodeTo appended to (empty before), overwritten
\* ft.overwritten times since; ft.result is what DecodeFrom gave for it
NoFooterResult ==
  [s |-> "none", metaindex_handle_ |-> [offset_ |-> 0, size_ |-> 0],
   index_handle_ |-> [offset_ |-> 0, size_ |-> 0]]

FooterInit(footer) ==
  ft = [footer |-> footer, bytes |-> <<>>, overwritten |-> 0,
        result |-> NoFooterResult]

FtEncodeTo ==
  /\ ft.bytes = <<>>
  /\ ft' = [ft EXCEPT !.bytes = Footer_EncodeTo(ft.footer)]
  /\ UNCHANGED notFooter

FtOverwrite(i, v) ==
  /\ ft.bytes # <<>>
  /\ ft.result.s = "none"
  /\ ft.overwritten < MaxOverwrites
  /\ ft.bytes[i] # v
  /\ ft' = [ft EXCEPT !.bytes[i] = v, !.overwritten = @ + 1]
  /\ UNCHANGED notFooter

FtDecodeFrom ==
  /\ ft.bytes # <<>>
  /\ ft.result.s = "none"
  /\ ft' = [ft EXCEPT !.result = Footer_DecodeFrom(ft.bytes)]
  /\ UNCHANGED notFooter

FooterNext ==
  \/ FtEncodeTo
  \/ \E i \in OverwritePlaces, v \in {0, 87, 255} : FtOverwrite(i, v)
  \/ FtDecodeFrom

\* C19: Footer::EncodeTo into an empty string produces exactly 48 bytes;
\* Footer::DecodeFrom of those bytes returns OK and recovers offset and size
\* of the metaindex handle and of the index handle; DecodeFrom of 48 bytes
\* whose last 8 bytes are not the magic number 0xdb4775248b80fb57 (least
\* significant byte first) returns Corruption.
C19_FooterRoundTrip ==
  /\ ft.bytes # <<>> => Len(ft.bytes) = 48
  /\ (ft.result.s # "none" /\ ft.overwritten = 0) =>
       /\ ft.result.s = "OK"
       /\ ft.result.metaindex_handle_ = ft.footer.metaindex_handle_
       /\ ft.result.index_handle_ = ft.footer.index_handle_
  /\ (ft.result.s # "none"
        /\ SubSeq(ft.bytes, 41, 48) # <<87, 251, 128, 139, 36, 117, 71, 219>>) =>
       ft.result.s = "Corruption: not an sstable (bad magic number)"

\* a footer whose handles take twenty bytes was decoded from its encoding
C19_Witness ==
  /\ ft.result.s = "OK" /\ ft.overwritten = 0
  /\ ft.footer.metaindex_handle_ = [offset_ |-> LargeHandleValue, size_ |-> LargeHandleValue]
  /\ ft.footer.index_handle_ = [offset_ |-> LargeHandleValue, size_ |-> LargeHandleValue]
  /\ ft.bytes[20] = 7 /\ ft.bytes[21] = 0

\* the last byte of the magic number was overwritten, the handles were not
C19_WitnessBadMagic ==
  /\ ft.overwritten = 1
  /\ ft.bytes[48] # 219
  /\ ft.footer.index_handle_.size_ = 128
  /\ ft.result.s = "Corruption: not an sstable (bad magic number)"

(***************************************************************************)
(* Two internal keys compared                                              *)
(***************************************************************************)
\* sequence numbers in increasing order: the least, numbers whose bytes are
\* in another order than they are, the largest
SequenceNumbers == <<U64(0), U64(1), U64(255), U64(256), kMaxSequenceNumber>>

\* the keys compared: i is the place of the sequence number in SequenceNumbers
ParsedKeys ==
  [user_key : {<<>>, <<1>>, <<1, 1>>, <<2>>}, i : 1 .. Len(SequenceNumbers),
   type : {kTypeDeletion, kTypeValue}]

EncodedKey(k) ==
  AppendInternalKey([user_key |-> k.user_key, sequence |-> SequenceNumbers[k.i],
                     type |-> k.type])

CompareInit(a, b) == ik = [a |-> a, b |-> b, compared |-> FALSE, r |-> 0]

\* InternalKeyComparator(BytewiseComparator()).Compare(a, b)
IkCompare ==
  /\ ~ik.compared
  /\ ik' = [ik EXCEPT !.compared = TRUE,
                      !.r = InternalKeyComparator_Compare(EncodedKey(ik.a),
                                                          EncodedKey(ik.b))]
  /\ UNCHANGED notCompare

CompareNext == IkCompare

\* a is before b: the user key is a proper prefix of the other or has the
\* smaller byte at the first place where they differ
UserKeyBefore(a, b) ==
  \E n \in 0 .. Len(a) :
    /\ n <= Len(b)
    /\ \A j \in 1 .. n : a[j] = b[j]
    /\ IF n = Len(a) THEN n < Len(b) ELSE n < Len(b) /\ a[n + 1] < b[n + 1]

\* C20: InternalKeyComparator::Compare orders internal keys by ascending
\* user key and, for equal user keys, by descending (sequence << 8 | type):
\* of two keys with the same user key the one with the larger sequence
\* number is strictly smaller, and Compare returns 0 only when user key,
\* sequence number and type are equal.
C20_InternalKeyOrder ==
  ik.compared =>
    /\ UserKeyBefore(ik.a.user_key, ik.b.user_key) => ik.r < 0
    /\ UserKeyBefore(ik.b.user_key, ik.a.user_key) => ik.r > 0
    /\ ik.a.user_key = ik.b.user_key =>
         /\ ik.a.i > ik.b.i => ik.r < 0
         /\ ik.a.i < ik.b.i => ik.r > 0
         /\ ik.a.i = ik.b.i =>
              /\ ik.a.type > ik.b.type => ik.r < 0
              /\ ik.a.type < ik.b.type => ik.r > 0
    /\ ik.r = 0 => ik.a = ik.b

\* sequence 256 against 255 under one user key: the larger one is smaller,
\* though the first byte of its tag as stored is the smaller one
C20_Witness ==
  /\ ik.compared /\ ik.r < 0
  /\ ik.a.user_key = <<1, 1>> /\ ik.b.user_key = <<1, 1>>
  /\ SequenceNumbers[ik.a.i] = U64(256) /\ SequenceNumbers[ik.b.i] = U64(255)
  /\ ik.a.type = kTypeDeletion /\ ik.b.type = kTypeValue

\* a longer user key with the largest sequence number after its prefix
C20_WitnessUserKey ==
  /\ ik.compared /\ ik.r > 0
  /\ ik.a.user_key = <<1, 1>> /\ ik.b.user_key = <<1>>
  /\ SequenceNumbers[ik.a.i] = kMaxSequenceNumber /\ ik.b.i = 1

\* offset in the file of the byte after the last fragment of the k-th record
RecordEnd(k) == Len(WriterAfter(k).dest_)

\* the records written whole before the cut
WholeBeforeCut ==
  SubSeq(log_written, 1,
         Cardinality({k \in 1 .. Len(log_written) : RecordEnd(k) <= log_damage.pos}))

\* the cut log was read from its start until ReadRecord returned false
CutAndRead ==
  /\ log_damage.kind = "cut" /\ log_r.open /\ log_r.initial_offset_ = 0
  /\ log_out.eofs >= 1

\* C29: from a correctly written log cut at any byte the reader returns
\* exactly the logical records all of whose physical records lie before the
\* cut, in order, then ReadRecord returns false, and no corruption is
\* reported: a cut header, a cut payload and a fragmented record without its
\* last fragments are dropped silently.
C29_CutLogReadsWholeRecords ==
  (log_damage.kind = "cut" /\ log_r.open /\ log_r.initial_offset_ = 0) =>
    /\ IsPrefix(log_out.records, WholeBeforeCut)
    /\ (log_out.eofs >= 1 => log_out.records = WholeBeforeCut)
    /\ log_r.drops = <<>>

\* the second record spans blocks and the file ends with the first block,
\* after its First fragment: the first record came back, then false
C29_Witness ==
  /\ CutAndRead
  /\ Len(log_written) >= 2
  /\ RecordStart(2) < kBlockSize /\ RecordEnd(2) > kBlockSize
  /\ log_damage.pos = kBlockSize
  /\ Len(log_written[1]) > 0
  /\ log_out.records = <<log_written[1]>>

\* the file ends inside the header of the third record
C29_WitnessCutHeader ==
  /\ CutAndRead
  /\ Len(log_written) = 3
  /\ log_damage.pos > RecordStart(3) /\ log_damage.pos < RecordStart(3) + kHeaderSize
  /\ log_out.records = <<log_written[1], log_written[2]>>

\* the file ends inside the payload of a record that is one Full fragment
C29_WitnessCutPayload ==
  /\ CutAndRead /\ log_r.checksum_
  /\ Len(log_written) >= 2
  /\ RecordEnd(2) <= kBlockSize
  /\ log_damage.pos >= RecordStart(2) + kHeaderSize /\ log_damage.pos < RecordEnd(2)
  /\ log_out.records = <<log_written[1]>>

RECURSIVE AssemblyTable(_, _, _, _, _)
\* what the assembly table gives for the physical records frames, with a
\* record in progress or not (fragmented) whose bytes so far are scratch:
\* the records emitted and the corruptions reported, added to out.  An
\* unfinished record is reported when it has bytes, or always (ReportEmpty)
AssemblyTable(frames, fragmented, scratch, out, ReportEmpty) ==
  IF frames = <<>> THEN out
  ELSE
    LET f == Head(frames)
        partial ==
          IF fragmented /\ (ReportEmpty \/ scratch # <<>>)
          THEN <<[bytes |-> Len(scratch), kind |-> "partial without end"]>>
          ELSE <<>>
        missing == [bytes |-> Len(f.data), kind |-> "missing start"]
    IN CASE f.type = kFullType ->
              AssemblyTable(Tail(frames), FALSE, <<>>,
                            [records |-> Append(out.records, f.data),
                             reports |-> out.reports \o partial], ReportEmpty)
         [] f.type = kFirstType ->
              AssemblyTable(Tail(frames), TRUE, f.data,
                            [out EXCEPT !.reports = @ \o partial], ReportEmpty)
         [] f.type = kMiddleType ->
              IF fragmented
              THEN AssemblyTable(Tail(frames), TRUE, scratch \o f.data, out, ReportEmpty)
              ELSE AssemblyTable(Tail(frames), FALSE, <<>>,
                                 [out EXCEPT !.reports = Append(@, missing)], ReportEmpty)
         [] f.type = kLastType ->
              IF fragmented
              THEN AssemblyTable(Tail(frames), FALSE, <<>>,
                                 [out EXCEPT !.records = Append(@, scratch \o f.data)],
                                 ReportEmpty)
              ELSE AssemblyTable(Tail(frames), FALSE, <<>>,
                                 [out EXCEPT !.reports = Append(@, missing)], ReportEmpty)

\* the corruptions the reader reported, by the row of the table
ReportedKinds ==
  LET Kind(reason) ==
        IF reason \in {"partial record without end(1)", "partial record without end(2)"}
        THEN "partial without end"
        ELSE IF reason \in {"missing start of fragmented record(1)",
                            "missing start of fragmented record(2)"}
        THEN "missing start"
        ELSE reason
  IN [i \in 1 .. Len(log_r.drops) |->
        [bytes |-> log_r.drops[i].bytes, kind |-> Kind(log_r.drops[i].reason)]]

\* the reader has returned and reported so far what the table says, and all
\* of it once ReadRecord returned false
FollowsTable(expected) ==
  /\ IsPrefix(log_out.records, expected.records)
  /\ IsPrefix(ReportedKinds, expected.reports)
  /\ log_out.eofs >= 1 => /\ log_out.records = expected.records
                          /\ ReportedKinds = expected.reports

\* the physical records are read from the start of the file
FramesRead == log_r.open /\ log_r.initial_offset_ = 0

\* C30, as stated: ReadRecord follows the assembly table for every sequence
\* of physical records: while a fragmented record is in progress a Full
\* record makes the reader report a corruption for the unfinished record and
\* return the Full record, a First record makes it report a corruption and
\* start a new record; while no record is in progress a Middle or a Last
\* record is reported as corruption (missing start) and skipped.
C30_FollowsAssemblyTable ==
  FramesRead =>
    FollowsTable(AssemblyTable(log_written, FALSE, <<>>,
                               [records |-> <<>>, reports |-> <<>>], TRUE))

\* C30, as the code has it: the same table, but a Full or a First record
\* that comes while a fragmented record is in progress makes the reader
\* report a corruption only when the unfinished record has at least one
\* byte; an unfinished record of no bytes is dropped without a report.
C30_FollowsAssemblyTableNonEmpty ==
  FramesRead =>
    FollowsTable(AssemblyTable(log_written, FALSE, <<>>,
                               [records |-> <<>>, reports |-> <<>>], FALSE))

\* a First record of two bytes, a First record of no bytes, a Full record
\* and a Last record: the first is reported when the second comes, the
\* second is dropped without a report when the Full record comes, which is
\* returned, and the Last record is reported for its missing start
C30_Witness ==
  /\ FramesRead /\ log_out.eofs >= 1
  /\ Len(log_written) = 4
  /\ log_written[1].type = kFirstType /\ Len(log_written[1].data) = 2
  /\ log_written[2].type = kFirstType /\ log_written[2].data = <<>>
  /\ log_written[3].type = kFullType /\ Len(log_written[3].data) = 2
  /\ log_written[4].type = kLastType /\ log_written[4].data = <<>>
  /\ log_out.records = <<log_written[3].data>>
  /\ log_r.drops = <<[bytes |-> 2, reason |-> "partial record without end(2)"],
                     [bytes |-> 0, reason |-> "missing start of fragmented record(2)"]>>

\* a First record of no bytes followed by a Full record: nothing is
\* reported, the Full record is returned
C30_WitnessEmptyFirst ==
  /\ FramesRead /\ log_out.eofs >= 1
  /\ Len(log_written) = 2
  /\ log_written[1].type = kFirstType /\ log_written[1].data = <<>>
  /\ log_written[2].type = kFullType
  /\ log_out.records = <<log_written[2].data>>
  /\ log_r.drops = <<>>

\* the first record written lies in more than one block and the reader
\* starts inside one of its blocks, past the header of the fragment there
StartsInsideMultiBlockRecord ==
  /\ log_r.open /\ log_damage.kind = "none"
  /\ Len(log_written) >= 1
  /\ RecordEnd(1) > kBlockSize
  /\ log_r.initial_offset_ > 0
  /\ log_r.initial_offset_ < RecordEnd(1)
  /\ log_r.initial_offset_ % kBlockSize # 0

\* C31: a reader constructed with initial_offset > 0 skips every Middle and
\* every Last physical record it reads, without output and without any
\* corruption report, until it has read the first First or Full record at or
\* after initial_offset, for every initial_offset, also one inside a block in
\* the middle of a multi-block record: on an undamaged log such a reader
\* reports nothing and returns only records that were written.
C31_ResyncSkipsSilently ==
  (log_r.open /\ log_damage.kind = "none" /\ log_r.initial_offset_ > 0) =>
    /\ log_r.drops = <<>>
    /\ \A i \in 1 .. Len(log_out.records) :
         \E k \in 1 .. Len(log_written) : log_out.records[i] = log_written[k]

\* the reader started at a block boundary inside a record of three blocks
\* and skipped its Middle and its Last fragment without a report
C31_WitnessBlockStart ==
  /\ log_r.open /\ log_damage.kind = "none" /\ ReadToEnd
  /\ Len(log_written) = 2
  /\ RecordEnd(1) > 2 * kBlockSize
  /\ log_r.initial_offset_ = kBlockSize
  /\ log_out.records = <<log_written[2]>>
  /\ log_r.drops = <<>>

RECURSIVE FramesOfFile(_, _, _)
\* the file from offset p on as physical records, each inside one block,
\* with block tails of fewer than kHeaderSize bytes all zero; frames are
\* the physical records before p.  ok is FALSE when the file is not of
\* this form
FramesOfFile(file, p, frames) ==
  LET leftover == kBlockSize - (p % kBlockSize)
      Frame(length) ==
        IF kHeaderSize + length > leftover \/ p + kHeaderSize + length > Len(file)
        THEN [ok |-> FALSE, frames |-> frames]
        ELSE FramesOfFile(file, p + kHeaderSize + length,
                          Append(frames,
                                 [type |-> file[p + 7],
                                  data |-> SubSeq(file, p + kHeaderSize + 1,
                                                  p + kHeaderSize + length)]))
  IN IF p = Len(file) THEN [ok |-> TRUE, frames |-> frames]
     ELSE IF leftover < kHeaderSize
     THEN IF p + leftover <= Len(file) /\ \A i \in p + 1 .. p + leftover : file[i] = 0
          THEN FramesOfFile(file, p + leftover, frames)
          ELSE [ok |-> FALSE, frames |-> frames]
     ELSE IF p + kHeaderSize > Len(file) THEN [ok |-> FALSE, frames |-> frames]
     ELSE Frame(file[p + 5] + 256 * file[p + 6])

RECURSIVE RecordsOfFrames(_, _, _, _)
\* the physical records frames as runs Full or First Middle* Last, each run
\* joined to one record; scratch is the run begun (fragmented) and records
\* the runs before it.  ok is FALSE when frames is not made of such runs
RecordsOfFrames(frames, fragmented, scratch, records) ==
  IF frames = <<>> THEN [ok |-> ~fragmented, records |-> records]
  ELSE LET type == Head(frames).type
           data == Head(frames).data
       IN IF type = kFullType /\ ~fragmented
          THEN RecordsOfFrames(Tail(frames), FALSE, <<>>, Append(records, data))
          ELSE IF type = kFirstType /\ ~fragmented
          THEN RecordsOfFrames(Tail(frames), TRUE, data, records)
          ELSE IF type = kMiddleType /\ fragmented
          THEN RecordsOfFrames(Tail(frames), TRUE, scratch \o data, records)
          ELSE IF type = kLastType /\ fragmented
          THEN RecordsOfFrames(Tail(frames), FALSE, <<>>, Append(records, scratch \o data))
          ELSE [ok |-> FALSE, records |-> records]

\* C32: for every AddRecord call the physical records written form the
\* pattern Full, or First Middle* Last, and their payloads concatenated equal
\* the record; each physical record (7-byte header plus payload) lies inside
\* one block, and a block tail shorter than 7 bytes is filled with zero bytes
\* before the next record starts in a new block.
C32_RecordsWrittenAsFragments ==
  LET Runs(parsed) ==
        /\ parsed.ok
        /\ RecordsOfFrames(parsed.frames, FALSE, <<>>, <<>>)
             = [ok |-> TRUE, records |-> log_written]
  IN log_damage.kind = "none" => Runs(FramesOfFile(log_w.dest_, 0, <<>>))

\* a record that leaves five bytes of the first block, which are zero, a
\* record of three fragments in the next three blocks, and a third record
C32_Witness ==
  /\ log_damage.kind = "none"
  /\ Len(log_written) = 3
  /\ Len(log_written[1]) = kBlockSize - kHeaderSize - 5
  /\ Len(log_written[2]) = 2 * kBlockSize - 4
  /\ SubSeq(log_w.dest_, kBlockSize - 4, kBlockSize) = <<0, 0, 0, 0, 0>>
  /\ log_w.dest_[kBlockSize + kHeaderSize] = kFirstType
  /\ log_w.dest_[2 * kBlockSize + kHeaderSize] = kMiddleType
  /\ log_w.dest_[3 * kBlockSize + kHeaderSize] = kLastType
  /\ Len(log_w.dest_) > 3 * kBlockSize + kHeaderSize + Len(log_written[2])
                          - 2 * (kBlockSize - kHeaderSize)

\* C33: while one thread inserts new keys into a SkipList, a concurrent
\* reader's Contains(k) returns true for every key k whose Insert completed
\* before the read began, and a forward iteration started with SeekToFirst
\* yields strictly increasing keys that include all such keys: a key being
\* inserted may be seen or missed, but it never hides an older key.
C33_ReaderSeesCompletedInserts ==
  /\ skip_rd.pc # "undefined"
  /\ (skip_rd.res \in {"found", "missing"} /\ skip_rd.key \in skip_rd.before) =>
       skip_rd.res = "found"
  /\ \A i \in 1 .. Len(skip_rd.seen) - 1 : skip_rd.seen[i] < skip_rd.seen[i + 1]
  /\ skip_rd.res = "end" =>
       skip_rd.before \subseteq {skip_rd.seen[i] : i \in 1 .. Len(skip_rd.seen)}

\* an iteration that began after an Insert had returned and ended after
\* another one: it yielded the older key and the key inserted meanwhile
C33_Witness ==
  /\ skip_rd.res = "end"
  /\ skip_rd.before # {}
  /\ Len(skip_rd.seen) > Cardinality(skip_rd.before)
  /\ \E i \in 1 .. Len(skip_rd.seen) - 1 :
       skip_rd.seen[i] \notin skip_rd.before /\ skip_rd.seen[i + 1] \in skip_rd.before

\* an iteration that missed the key inserted while it ran
C33_WitnessMissed ==
  /\ skip_rd.res = "end"
  /\ skip_rd.before # {}
  /\ skip_rd.before = {skip_rd.seen[i] : i \in 1 .. Len(skip_rd.seen)}
  /\ \E k \in SkipInserted : k \notin skip_rd.before

\* Contains found a key that was there before it began, while the node of a
\* smaller key was being linked
C33_WitnessContains ==
  /\ skip_rd.res = "found" /\ skip_rd.key \in skip_rd.before
  /\ skip_ins.pc # "idle"
  /\ skip.node[skip_ins.x].key < skip_rd.key

RECURSIVE Block_EntryOffsets(_, _, _)
\* the offsets at which the entries of the block start, from the entry at
\* offset on
Block_EntryOffsets(data, offset, last_key) ==
  LET Parsed(e) ==
        IF ~e.ok THEN <<>>
        ELSE <<offset>> \o Block_EntryOffsets(data, e.next, e.key)
  IN Parsed(Block_ParseNextKey(data, offset, last_key))

\* the restart array of the block as a sequence
Block_Restarts(data) ==
  [i \in 1 .. Block_NumRestarts(data) |-> Block_GetRestartPoint(data, i - 1)]

\* the restart offsets of the block are strictly increasing from 0, each is
\* the start of an entry stored with shared length 0 (the first byte of the
\* entry), and the entries they start are the entries 0, R, 2R, ...
RestartsAtEveryRth(data, R) ==
  LET Check(restarts, offsets) ==
        /\ Len(restarts) >= 1 /\ restarts[1] = 0
        /\ \A i \in 1 .. Len(restarts) - 1 : restarts[i] < restarts[i + 1]
        /\ \A i \in 1 .. Len(restarts) :
             /\ \E j \in 1 .. Len(offsets) : offsets[j] = restarts[i]
             /\ data[restarts[i] + 1] = 0
        /\ {j - 1 : j \in {k \in 1 .. Len(offsets) :
                              \E i \in 1 .. Len(restarts) : restarts[i] = offsets[k]}}
             = {n \in 0 .. Len(offsets) - 1 : n % R = 0}
  IN Check(Block_Restarts(data), Block_EntryOffsets(data, 0, <<>>))

\* C35, as stated: in every block produced by BlockBuilder::Finish the
\* restart offsets are strictly increasing, the first one is 0, each one is
\* the start offset of an entry stored with shared length 0, and the entries
\* at restart points are exactly entries number 0, R, 2R, ... for restart
\* interval R.
C35_RestartsAtEveryRth ==
  bb.b.finished_ => RestartsAtEveryRth(bb.b.buffer_, bb.interval)

\* C35, as the code has it: the same in every block that Finish produces
\* from at least one entry; a block finished without an entry has the one
\* restart offset 0, where no entry starts.
C35_RestartsAtEveryRthOfEntries ==
  bb.b.finished_ =>
    IF bb.added # <<>>
    THEN RestartsAtEveryRth(bb.b.buffer_, bb.interval)
    ELSE /\ Block_Restarts(bb.b.buffer_) = <<0>>
         /\ Block_EntryOffsets(bb.b.buffer_, 0, <<>>) = <<>>

\* a finished block of four entries with restart interval 2: restarts at
\* the first and the third entry, which shares a byte with the second and
\* is stored whole
C35_Witness ==
  /\ bb.b.finished_
  /\ bb.interval = 2
  /\ Len(bb.added) = MaxBlockEntries
  /\ Len(Block_Restarts(bb.b.buffer_)) = 2
  /\ CommonPrefix(bb.added[2].key, bb.added[3].key, 0) >= 1
  /\ Block_Restarts(bb.b.buffer_)[2] = Block_EntryOffsets(bb.b.buffer_, 0, <<>>)[3]

\* a block finished without an entry
C35_WitnessEmpty ==
  /\ bb.b.finished_
  /\ bb.added = <<>>
  /\ Len(bb.b.buffer_) = 8

(***************************************************************************)
(* Two-level iterator: table/two_level_iterator.cc                         *)
(***************************************************************************)
MaxIndexEntries == 3   \* blocks under the index iterator
MaxDataEntries == 2    \* entries of one block

\* the keys are integers: block b holds the first sizes[b] keys after
\* (b - 1) * KeyStride, and its index entry has the key b * KeyStride, which
\* is not below the block's last key and is below the next block's first
KeyStride == MaxDataEntries + 1

KeysOfBlock(sizes, b) == [j \in 1 .. sizes[b] |-> (b - 1) * KeyStride + j]

KeysOfIndex(sizes) == [b \in 1 .. Len(sizes) |-> b * KeyStride]

\* an Iterator over the sorted sequence keys, as the index iterator and the
\* block iterators are: its position is 1 .. Len(keys), or 0 when !Valid()
SeqIter_Seek(keys, target) ==
  IF \E i \in 1 .. Len(keys) : keys[i] >= target
  THEN CHOOSE i \in 1 .. Len(keys) :
         keys[i] >= target /\ \A j \in 1 .. i - 1 : keys[j] < target
  ELSE 0

SeqIter_SeekToFirst(keys) == IF Len(keys) > 0 THEN 1 ELSE 0

SeqIter_SeekToLast(keys) == Len(keys)

SeqIter_Next(keys, pos) == IF pos < Len(keys) THEN pos + 1 ELSE 0

SeqIter_Prev(keys, pos) == pos - 1

\* TwoLevelIterator(index_iter, block_function, arg, options) over blocks of
\* the given sizes.  index_iter_ is the position of the index iterator, whose
\* value at position b is the handle b; data_iter_.iter is NULL or the handle
\* of the block that block_function made the iterator for
NewTwoLevelIterator(sizes) ==
  [sizes |-> sizes, index_iter_ |-> 0, data_iter_ |-> [iter |-> NULL, pos |-> 0],
   data_block_handle_ |-> 0]

TwoLevel_Valid(it) == it.data_iter_.iter # NULL /\ it.data_iter_.pos # 0

TwoLevel_key(it) == KeysOfBlock(it.sizes, it.data_iter_.iter)[it.data_iter_.pos]

\* status() of the data iterators is OK
SetDataIterator(it, data_iter) == [it EXCEPT !.data_iter_ = data_iter]

InitDataBlock(it) ==
  IF it.index_iter_ = 0
  THEN SetDataIterator(it, [iter |-> NULL, pos |-> 0])
  ELSE IF it.data_iter_.iter # NULL /\ it.index_iter_ = it.data_block_handle_
  THEN it
  ELSE SetDataIterator([it EXCEPT !.data_block_handle_ = it.index_iter_],
                       [iter |-> it.index_iter_, pos |-> 0])

\* if (data_iter_.iter() != NULL) data_iter_.SeekToFirst()
DataSeekToFirst(it) ==
  IF it.data_iter_.iter # NULL
  THEN [it EXCEPT !.data_iter_.pos =
                    SeqIter_SeekToFirst(KeysOfBlock(it.sizes, it.data_iter_.iter))]
  ELSE it

\* if (data_iter_.iter() != NULL) data_iter_.SeekToLast()
DataSeekToLast(it) ==
  IF it.data_iter_.iter # NULL
  THEN [it EXCEPT !.data_iter_.pos =
                    SeqIter_SeekToLast(KeysOfBlock(it.sizes, it.data_iter_.iter))]
  ELSE it

\* an iterator that tries the next block once
SkipEmptyDataBlocksForwardOnce(it) ==
  IF it.data_iter_.iter = NULL \/ it.data_iter_.pos = 0
  THEN IF it.index_iter_ = 0
       THEN SetDataIterator(it, [iter |-> NULL, pos |-> 0])
       ELSE DataSeekToFirst(InitDataBlock(
              [it EXCEPT !.index_iter_ = SeqIter_Next(KeysOfIndex(it.sizes), @)]))
  ELSE it

RECURSIVE SkipEmptyDataBlocksForward(_)
SkipEmptyDataBlocksForward(it) ==
  IF it.data_iter_.iter = NULL \/ it.data_iter_.pos = 0
  THEN IF it.index_iter_ = 0
       THEN SetDataIterator(it, [iter |-> NULL, pos |-> 0])
       ELSE SkipEmptyDataBlocksForward(DataSeekToFirst(InitDataBlock(
              [it EXCEPT !.index_iter_ = SeqIter_Next(KeysOfIndex(it.sizes), @)])))
  ELSE it

RECURSIVE SkipEmptyDataBlocksBackward(_)
SkipEmptyDataBlocksBackward(it) ==
  IF it.data_iter_.iter = NULL \/ it.data_iter_.pos = 0
  THEN IF it.index_iter_ = 0
       THEN SetDataIterator(it, [iter |-> NULL, pos |-> 0])
       ELSE SkipEmptyDataBlocksBackward(DataSeekToLast(InitDataBlock(
              [it EXCEPT !.index_iter_ = SeqIter_Prev(KeysOfIndex(it.sizes), @)])))
  ELSE it

TwoLevel_Seek(it, target) ==
  LET DataSeek(i) ==
        IF i.data_iter_.iter # NULL
        THEN [i EXCEPT !.data_iter_.pos =
                         SeqIter_Seek(KeysOfBlock(i.sizes, i.data_iter_.iter), target)]
        ELSE i
  IN SkipEmptyDataBlocksForward(DataSeek(InitDataBlock(
       [it EXCEPT !.index_iter_ = SeqIter_Seek(KeysOfIndex(it.sizes), target)])))

TwoLevel_SeekToFirst(it) ==
  SkipEmptyDataBlocksForward(DataSeekToFirst(InitDataBlock(
    [it EXCEPT !.index_iter_ = SeqIter_SeekToFirst(KeysOfIndex(it.sizes))])))

TwoLevel_SeekToLast(it) ==
  SkipEmptyDataBlocksBackward(DataSeekToLast(InitDataBlock(
    [it EXCEPT !.index_iter_ = SeqIter_SeekToLast(KeysOfIndex(it.sizes))])))

TwoLevel_Next(it) ==
  SkipEmptyDataBlocksForward(
    [it EXCEPT !.data_iter_.pos = SeqIter_Next(KeysOfBlock(it.sizes, it.data_iter_.iter), @)])

TwoLevel_Prev(it) ==
  SkipEmptyDataBlocksBackward(
    [it EXCEPT !.data_iter_.pos = SeqIter_Prev(KeysOfBlock(it.sizes, it.data_iter_.iter), @)])

---------------------------------------------------------------------------
\* a client of the iterator.  tl.scan is "forward" from a SeekToFirst on
\* while only Next is called, "backward" from a SeekToLast on while only Prev
\* is called; tl.visited are the keys the scan stood on

TwoLevelInit(sizes) ==
  tl = [it |-> NewTwoLevelIterator(sizes), op |-> "new", scan |-> "none",
        visited |-> <<>>]

Visit(it, visited) == IF TwoLevel_Valid(it) THEN Append(visited, TwoLevel_key(it)) ELSE visited

TlSeek(target) ==
  /\ tl' = [tl EXCEPT !.it = TwoLevel_Seek(tl.it, target), !.op = "Seek",
                      !.scan = "none", !.visited = <<>>]
  /\ UNCHANGED notTwoLevel

TlSeekToFirst ==
  /\ tl' = [it |-> TwoLevel_SeekToFirst(tl.it), op |-> "SeekToFirst",
            scan |-> "forward", visited |-> Visit(TwoLevel_SeekToFirst(tl.it), <<>>)]
  /\ UNCHANGED notTwoLevel

TlSeekToLast ==
  /\ tl' = [it |-> TwoLevel_SeekToLast(tl.it), op |-> "SeekToLast",
            scan |-> "backward", visited |-> Visit(TwoLevel_SeekToLast(tl.it), <<>>)]
  /\ UNCHANGED notTwoLevel

TlNext ==
  /\ TwoLevel_Valid(tl.it)
  /\ tl' = [it |-> TwoLevel_Next(tl.it), op |-> "Next",
            scan |-> IF tl.scan = "forward" THEN "forward" ELSE "none",
            visited |-> IF tl.scan = "forward"
                        THEN Visit(TwoLevel_Next(tl.it), tl.visited) ELSE <<>>]
  /\ UNCHANGED notTwoLevel

TlPrev ==
  /\ TwoLevel_Valid(tl.it)
  /\ tl' = [it |-> TwoLevel_Prev(tl.it), op |-> "Prev",
            scan |-> IF tl.scan = "backward" THEN "backward" ELSE "none",
            visited |-> IF tl.scan = "backward"
                        THEN Visit(TwoLevel_Prev(tl.it), tl.visited) ELSE <<>>]
  /\ UNCHANGED notTwoLevel

TwoLevelNext ==
  \/ \E target \in 0 .. MaxIndexEntries * KeyStride + 1 : TlSeek(target)
  \/ TlSeekToFirst
  \/ TlSeekToLast
  \/ TlNext
  \/ TlPrev

RECURSIVE KeysFrom(_, _)
\* the keys of the blocks b, b + 1, ... in order
KeysFrom(sizes, b) ==
  IF b > Len(sizes) THEN <<>> ELSE KeysOfBlock(sizes, b) \o KeysFrom(sizes, b + 1)

Reversed(seq) == [i \in 1 .. Len(seq) |-> seq[Len(seq) + 1 - i]]

\* C34: after any of Seek, SeekToFirst, SeekToLast, Next or Prev on a
\* two-level iterator, either the iterator is valid and positioned on an
\* entry of the block the index iterator points to, or the index iterator is
\* exhausted; hence SeekToFirst followed by repeated Next visits every entry
\* of every block exactly once in order, and SeekToLast followed by repeated
\* Prev visits them in reverse order, also when some blocks are empty.
C34_PositionedOrExhausted ==
  /\ tl.op # "new" =>
       \/ /\ TwoLevel_Valid(tl.it)
          /\ tl.it.index_iter_ \in 1 .. Len(tl.it.sizes)
          /\ tl.it.data_iter_.iter = tl.it.index_iter_
          /\ tl.it.data_iter_.pos \in 1 .. tl.it.sizes[tl.it.index_iter_]
       \/ /\ ~TwoLevel_Valid(tl.it)
          /\ tl.it.index_iter_ = 0
  /\ tl.scan = "forward" =>
       /\ IsPrefix(tl.visited, KeysFrom(tl.it.sizes, 1))
       /\ ~TwoLevel_Valid(tl.it) => tl.visited = KeysFrom(tl.it.sizes, 1)
  /\ tl.scan = "backward" =>
       /\ IsPrefix(tl.visited, Reversed(KeysFrom(tl.it.sizes, 1)))
       /\ ~TwoLevel_Valid(tl.it) => tl.visited = Reversed(KeysFrom(tl.it.sizes, 1))

\* a forward scan to the end over an empty block, two empty blocks and a
\* block with entries
C34_Witness ==
  /\ tl.scan = "forward" /\ tl.op = "Next" /\ ~TwoLevel_Valid(tl.it)
  /\ Len(tl.it.sizes) = MaxIndexEntries
  /\ tl.it.sizes[1] > 0 /\ tl.it.sizes[2] = 0 /\ tl.it.sizes[MaxIndexEntries] > 0
  /\ Len(tl.visited) = tl.it.sizes[1] + tl.it.sizes[MaxIndexEntries]

\* a backward scan to the end that began on an empty last block
C34_WitnessBackward ==
  /\ tl.scan = "backward" /\ tl.op = "Prev" /\ ~TwoLevel_Valid(tl.it)
  /\ Len(tl.it.sizes) = MaxIndexEntries
  /\ tl.it.sizes[MaxIndexEntries] = 0 /\ tl.it.sizes[1] = MaxDataEntries
  /\ Len(tl.visited) >= MaxDataEntries

(***************************************************************************)
(* A FilterBlockBuilder on its own                                         *)
(***************************************************************************)
MaxFilterKeys == 3     \* AddKey calls in one behaviour
MaxStartBlocks == 4    \* StartBlock calls in one behaviour

\* the offsets given to StartBlock: at, just before and just after the start
\* of a filter's range, with ranges between them that are passed over
FilterOffsets ==
  {0, 1, 2 ^ kFilterBaseLg - 1, 2 ^ kFilterBaseLg, 2 ^ kFilterBaseLg + 1,
   3 * 2 ^ kFilterBaseLg, 5 * 2 ^ kFilterBaseLg + 1}

\* fb.f is the builder, fb.offsets the offsets StartBlock was called with,
\* fb.keys the number of AddKey calls
FilterInit ==
  fb = [f |-> NewFilterBlockBuilder("test"), offsets |-> <<>>, keys |-> 0]

FbStartBlock(block_offset) ==
  /\ fb.offsets # <<>> => block_offset >= fb.offsets[Len(fb.offsets)]
  /\ Len(fb.offsets) < MaxStartBlocks
  /\ fb' = [fb EXCEPT !.f = FilterBlockBuilder_StartBlock(@, block_offset),
                      !.offsets = Append(@, block_offset)]
  /\ UNCHANGED notFilter

\* a key of the block started last
FbAddKey(key) ==
  /\ fb.offsets # <<>>
  /\ fb.keys < MaxFilterKeys
  /\ fb' = [fb EXCEPT !.f = FilterBlockBuilder_AddKey(@, key), !.keys = @ + 1]
  /\ UNCHANGED notFilter

FilterNext ==
  \/ \E block_offset \in FilterOffsets : FbStartBlock(block_offset)
  \/ \E key \in {<<1>>, <<1, 2>>} : FbAddKey(key)

\* the bytes of filter number i (from 0) generated so far
GeneratedFilter(f, i) ==
  SubSeq(f.result_, f.filter_offsets_[i + 1] + 1,
         IF i + 2 <= Len(f.filter_offsets_) THEN f.filter_offsets_[i + 2]
         ELSE Len(f.result_))

\* C36: after every FilterBlockBuilder::StartBlock(o), called with
\* non-decreasing offsets, the number of filters generated so far equals
\* floor(o / kFilterBase); the filters generated for ranges of kFilterBase
\* bytes in which no block started are empty.
C36_FiltersUpToOffset ==
  fb.offsets # <<>> =>
    /\ Len(fb.f.filter_offsets_) = fb.offsets[Len(fb.offsets)] \div 2 ^ kFilterBaseLg
    /\ \A i \in 0 .. Len(fb.f.filter_offsets_) - 1 :
         (\A j \in 1 .. Len(fb.offsets) : fb.offsets[j] \div 2 ^ kFilterBaseLg # i) =>
           GeneratedFilter(fb.f, i) = <<>>

\* blocks started in the ranges 0 and 1 with keys, then one in range 5:
\* five filters, those of the ranges 0 and 1 with bytes, the others empty
C36_Witness ==
  /\ Len(fb.offsets) >= 3
  /\ fb.offsets[1] = 1
  /\ fb.offsets[Len(fb.offsets) - 1] = 2 ^ kFilterBaseLg + 1
  /\ fb.offsets[Len(fb.offsets)] = 5 * 2 ^ kFilterBaseLg + 1
  /\ Len(fb.f.filter_offsets_) = 5
  /\ GeneratedFilter(fb.f, 0) # <<>>
  /\ GeneratedFilter(fb.f, 1) # <<>>
  /\ GeneratedFilter(fb.f, 2) = <<>>
  /\ fb.keys = MaxFilterKeys

(***************************************************************************)
(* A FilterBlockReader on the bytes of a filter block, whatever they are   *)
(***************************************************************************)
MaxFilterWord == 3     \* the largest offset written in a filter block read

\* the bytes of a filter block with these filters, offset array, array start
\* and base (the layout FilterBlockBuilder::Finish writes)
FilterContents(data, words, last_word, base_lg) ==
  data \o PutFixed32s(words) \o EncodeFixed32(last_word) \o <<base_lg>>

FilterWords ==
  {<<>>} \cup {<<a>> : a \in 0 .. MaxFilterWord}
         \cup {<<a, b>> : a, b \in 0 .. MaxFilterWord}

\* filter blocks that Finish writes, blocks with any offsets and array start
\* in them, and what is left of these when the end is cut off
FilterBlocks ==
  LET whole == {FilterContents(data, words, last_word, base_lg) :
                  data \in {<<>>, <<1>>, <<1, 0>>}, words \in FilterWords,
                  last_word \in 0 .. MaxFilterWord, base_lg \in {0, kFilterBaseLg}}
  IN UNION {{SubSeq(c, 1, keep) : keep \in 0 .. Len(c)} : c \in whole}

\* frd.contents is the filter block; after a call, frd.done, and frd.result is
\* what KeyMayMatch(frd.block_offset, frd.key) returned
FilterReadInit(contents) ==
  frd = [contents |-> contents, done |-> FALSE, block_offset |-> 0, key |-> <<>>,
        result |-> TRUE]

FrKeyMayMatch(block_offset, key) ==
  /\ frd' = [frd EXCEPT !.done = TRUE, !.block_offset = block_offset, !.key = key,
                      !.result = FilterBlockReader_KeyMayMatch(
                                   NewFilterBlockReader("test", frd.contents),
                                   block_offset, key)]
  /\ UNCHANGED notFilterRead

FilterReadNext ==
  \E block_offset \in {0, 1, 2 ^ kFilterBaseLg, 2 * 2 ^ kFilterBaseLg},
     key \in {<<1>>, <<1, 2>>} : FrKeyMayMatch(block_offset, key)

\* the four ways a filter block is malformed or does not cover block_offset
ShortContents(contents) == Len(contents) < 5

ArrayStart(contents) ==
  DecodeFixed32(SubSeq(contents, Len(contents) - 4, Len(contents) - 1))

ArrayStartBeyond(contents) ==
  ~ShortContents(contents) /\ ArrayStart(contents) > Len(contents) - 5

IndexPastArray(contents, block_offset) ==
  /\ ~ShortContents(contents) /\ ~ArrayStartBeyond(contents)
  /\ block_offset \div 2 ^ contents[Len(contents)]
       >= (Len(contents) - 5 - ArrayStart(contents)) \div 4

RecordedStart(contents, block_offset) ==
  LET at == ArrayStart(contents) + 4 * (block_offset \div 2 ^ contents[Len(contents)])
  IN DecodeFixed32(SubSeq(contents, at + 1, at + 4))

RecordedLimit(contents, block_offset) ==
  LET at == ArrayStart(contents) + 4 * (block_offset \div 2 ^ contents[Len(contents)])
  IN DecodeFixed32(SubSeq(contents, at + 5, at + 8))

BadFilterRange(contents, block_offset) ==
  /\ ~ShortContents(contents) /\ ~ArrayStartBeyond(contents)
  /\ ~IndexPastArray(contents, block_offset)
  /\ \/ RecordedStart(contents, block_offset) > RecordedLimit(contents, block_offset)
     \/ RecordedLimit(contents, block_offset) > ArrayStart(contents)

\* C37: FilterBlockReader::KeyMayMatch returns true whenever the filter block
\* is malformed or does not cover the requested offset: contents shorter
\* than 5 bytes, an offset-array start beyond the contents, a block offset
\* whose filter index is past the offset array, or a filter whose recorded
\* start and limit offsets are inconsistent or lie outside the filter data.
C37_MalformedMayMatch ==
  (/\ frd.done
   /\ \/ ShortContents(frd.contents)
      \/ ArrayStartBeyond(frd.contents)
      \/ IndexPastArray(frd.contents, frd.block_offset)
      \/ BadFilterRange(frd.contents, frd.block_offset))
  => frd.result

\* the same without the filters whose recorded start and limit are equal:
\* this much of C37 holds
C37_MalformedMayMatchUnlessEqual ==
  (/\ frd.done
   /\ \/ ShortContents(frd.contents)
      \/ ArrayStartBeyond(frd.contents)
      \/ IndexPastArray(frd.contents, frd.block_offset)
      \/ /\ BadFilterRange(frd.contents, frd.block_offset)
         /\ RecordedStart(frd.contents, frd.block_offset)
              # RecordedLimit(frd.contents, frd.block_offset))
  => frd.result

\* one byte of filters and an offset array whose first filter starts and ends
\* at 2, past the filters: KeyMayMatch returns false
C37_WitnessEqualOutside ==
  /\ frd.done
  /\ frd.contents = FilterContents(<<1>>, <<2, 2>>, 1, kFilterBaseLg)
  /\ frd.block_offset = 0
  /\ frd.key = <<1>>
  /\ ~frd.result

\* each of the other cases, answered with true
C37_WitnessShort == frd.done /\ Len(frd.contents) = 4 /\ frd.result

C37_WitnessArrayStartBeyond ==
  frd.done /\ frd.contents = FilterContents(<<>>, <<>>, 1, kFilterBaseLg) /\ frd.result

C37_WitnessIndexPastArray ==
  /\ frd.done
  /\ frd.contents = FilterContents(<<1>>, <<0>>, 1, kFilterBaseLg)
  /\ frd.block_offset = 2 ^ kFilterBaseLg
  /\ frd.result

C37_WitnessStartAfterLimit ==
  /\ frd.done
  /\ frd.contents = FilterContents(<<1, 0>>, <<1, 0>>, 2, kFilterBaseLg)
  /\ frd.block_offset = 0
  /\ frd.result

(***************************************************************************)
(* WriteBlock with compression                                             *)
(***************************************************************************)
MaxRawValue == 9         \* the longest value in the block written
MaxCompressedLen == 22   \* the longest output of Snappy_Compress

\* wb.r is a Rep whose data block holds one entry; after the call, wb.done,
\* wb.raw is the finished block, wb.snappy what Snappy_Compress did and
\* wb.handle the handle WriteBlock filled in
WriteBlockInit(value) ==
  wb = [r |-> [NewTableBuilder(DefaultTableOptions, NoFailure) EXCEPT
                 !.data_block = BlockBuilder_Add(
                    @, DefaultTableOptions.block_restart_interval, <<1>>, value)],
        raw |-> <<>>,
        snappy |-> [ok |-> FALSE, output |-> <<>>],
        handle |-> [offset_ |-> 0, size_ |-> 0],
        done |-> FALSE]

WbWriteBlock(snappy) ==
  LET Written(w) ==
        wb' = [r |-> [w.r EXCEPT !.data_block = w.block],
               raw |-> BlockBuilder_Finish(wb.r.data_block).buffer_,
               snappy |-> snappy,
               handle |-> w.handle,
               done |-> TRUE]
  IN /\ ~wb.done
     /\ Written(TableBuilder_WriteBlockSnappy(wb.r, wb.r.data_block, snappy))
     /\ UNCHANGED notWriteBlock

\* Snappy_Compress fails, or leaves output of any length: the bytes are 7s,
\* which no finished block begins with
WriteBlockNext ==
  \E ok \in BOOLEAN, len \in 0 .. MaxCompressedLen :
     WbWriteBlock([ok |-> ok, output |-> [i \in 1 .. len |-> 7]])

\* the block as it stands in the file, and its type byte
StoredContents == SubSeq(wb.r.file, 1, wb.handle.size_)

StoredType == wb.r.file[wb.handle.size_ + 1]

\* C38: with compression enabled and available, TableBuilder stores a block
\* in compressed form exactly when compression shrinks it by at least 12.5%
\* (compressed size <= 87.5% of the raw size); otherwise it stores the raw
\* bytes with type byte 0 (none).
C38_CompressedWhenShrunkByEighth ==
  (wb.done /\ wb.snappy.ok) =>
    IF 8 * Len(wb.snappy.output) <= 7 * Len(wb.raw)
    THEN StoredContents = wb.snappy.output /\ StoredType = kSnappyCompression
    ELSE StoredContents = wb.raw /\ StoredType = kNoCompression

\* what holds: compressed form exactly when the compressed size is less than
\* 87.5% of the raw size
C38_CompressedWhenShrunkByMore ==
  (wb.done /\ wb.snappy.ok) =>
    IF 8 * Len(wb.snappy.output) < 7 * Len(wb.raw)
    THEN StoredContents = wb.snappy.output /\ StoredType = kSnappyCompression
    ELSE StoredContents = wb.raw /\ StoredType = kNoCompression

\* a block of 16 bytes that Snappy_Compress turned into 14 is stored raw
C38_WitnessEighth ==
  /\ wb.done /\ wb.snappy.ok
  /\ Len(wb.raw) = 16
  /\ Len(wb.snappy.output) = 14
  /\ StoredContents = wb.raw
  /\ StoredType = kNoCompression

\* the same block turned into 13 bytes is stored compressed; a block of 17
\* bytes turned into 14 is stored compressed, turned into 15 raw
C38_WitnessCompressed ==
  /\ wb.done /\ wb.snappy.ok
  /\ Len(wb.raw) = 16
  /\ Len(wb.snappy.output) = 13
  /\ StoredContents = wb.snappy.output
  /\ StoredType = kSnappyCompression

C38_WitnessRaw ==
  /\ wb.done /\ wb.snappy.ok
  /\ Len(wb.raw) = 17
  /\ Len(wb.snappy.output) = 15
  /\ StoredContents = wb.raw
  /\ StoredType = kNoCompression

(***************************************************************************)
(* ReadBlock on a block of any type                                        *)
(***************************************************************************)
MaxBlockType == 3      \* the largest type byte of the blocks read

\* a block as WriteRawBlock writes it, with any type byte; crc_ok says
\* whether the checksum in the trailer is the one of the contents and type
StoredBlock(data, type, crc_ok) ==
  data \o <<type>>
       \o EncodeFixed32(IF crc_ok THEN crc32c_Mask(crc32c_Extend(data, <<type>>))
                        ELSE (crc32c_Mask(crc32c_Extend(data, <<type>>)) + 1) % 2 ^ CrcBits)

\* rb.file holds the block at rb.handle; after the call, rb.done, and
\* rb.result is what ReadBlock returned with options.verify_checksums =
\* rb.verify
ReadBlockInit(file, offset) ==
  rb = [file |-> file,
        handle |-> [offset_ |-> offset,
                    size_ |-> IF Len(file) - offset >= kBlockTrailerSize
                              THEN Len(file) - offset - kBlockTrailerSize ELSE 0],
        verify |-> FALSE,
        done |-> FALSE,
        result |-> [s |-> "OK", data |-> <<>>, cachable |-> FALSE]]

RbReadBlock(verify_checksums) ==
  /\ rb' = [rb EXCEPT !.verify = verify_checksums, !.done = TRUE,
                      !.result = ReadBlock(rb.file, verify_checksums, rb.handle)]
  /\ UNCHANGED notReadBlock

ReadBlockNext == \E verify_checksums \in BOOLEAN : RbReadBlock(verify_checksums)

\* the type byte of the block in rb.file
TypeByte == rb.file[rb.handle.offset_ + rb.handle.size_ + 1]

ChecksumGood ==
  rb.file = SubSeq(rb.file, 1, rb.handle.offset_)
              \o StoredBlock(SubSeq(rb.file, rb.handle.offset_ + 1,
                                    rb.handle.offset_ + rb.handle.size_),
                             TypeByte, TRUE)

\* the statuses of each kind that ReadBlock returns
NotSupportedStatuses == {"NotSupported: bad block type"}

CorruptionStatuses ==
  {"Corruption: truncated block read", "Corruption: block checksum mismatch",
   "Corruption: corrupted compressed block contents", "Corruption: bad block type"}

\* C39: reading an SST block whose type byte is neither 0 (none) nor 1
\* (snappy) fails with an error of kind NotSupported.
C39_BadTypeNotSupported ==
  (rb.done /\ Len(rb.file) >= rb.handle.offset_ + kBlockTrailerSize
           /\ TypeByte \notin {kNoCompression, kSnappyCompression})
  => rb.result.s \in NotSupportedStatuses

\* C39 as it holds: reading an SST block whose type byte is neither 0 (none)
\* nor 1 (snappy) fails with an error of kind Corruption; it is "bad block
\* type" when the checksum is right or not verified.
C39_BadTypeCorruption ==
  (rb.done /\ Len(rb.file) >= rb.handle.offset_ + kBlockTrailerSize
           /\ TypeByte \notin {kNoCompression, kSnappyCompression})
  => /\ rb.result.s \in CorruptionStatuses
     /\ (ChecksumGood \/ ~rb.verify) => rb.result.s = "Corruption: bad block type"

\* a block of type 2 with the right checksum, read with verification
C39_Witness ==
  /\ rb.done /\ rb.verify
  /\ rb.handle.offset_ = 1
  /\ rb.handle.size_ = 2
  /\ TypeByte = 2
  /\ ChecksumGood
  /\ rb.result.s = "Corruption: bad block type"

\* blocks of the types 0 and 1 are read
C39_WitnessSnappy ==
  /\ rb.done /\ rb.verify
  /\ TypeByte = kSnappyCompression
  /\ rb.result.s = "OK"
  /\ rb.result.data = <<7>>

C39_WitnessNone ==
  /\ rb.done /\ rb.verify
  /\ TypeByte = kNoCompression
  /\ rb.result.s = "OK"
  /\ rb.result.data = <<1, 7>>

(***************************************************************************)
(* ReadRecord on any log file, one iteration at a time                     *)
(***************************************************************************)
MaxStepRecords == 2    \* records in the log before it is damaged

\* records of no bytes and of two fragments
StepLens == {0, kBlockSize}

RECURSIVE LogOfLens(_, _)
\* the writer after AddRecord of records of these lengths
LogOfLens(w, lens) ==
  IF lens = <<>> THEN w
  ELSE LogOfLens(Writer_AddRecord(w, Payload(Head(lens))), Tail(lens))

WrittenLogs ==
  {LogOfLens(NewWriter, lens).dest_ :
     lens \in UNION {[1 .. n -> StepLens] : n \in 0 .. MaxStepRecords}}

Zeros(n) == [i \in 1 .. n |-> 0]

\* the ways a log is damaged: cut at any byte, any one byte changed, zeros
\* over any region of these lengths, zeros after its end
DamagedLogs(file) ==
  {file}
  \cup {SubSeq(file, 1, pos) : pos \in 0 .. Len(file)}
  \cup {[file EXCEPT ![pos] = (@ + 1) % 256] : pos \in 1 .. Len(file)}
  \cup {[i \in 1 .. Len(file) |-> IF pos <= i /\ i < pos + n THEN 0 ELSE file[i]] :
          pos \in 1 .. Len(file), n \in {kHeaderSize, kBlockSize}}
  \cup {file \o Zeros(n) : n \in {1, kHeaderSize, kBlockSize + 1}}

LogFiles == UNION {DamagedLogs(file) : file \in WrittenLogs}

\* rr.r is the Reader; rr.pc is "loop" while a call of ReadRecord is in its
\* loop, with the local variables of the call in rr.scratch,
\* rr.in_fragmented_record, rr.prospective_record_offset and rr.fragment;
\* rr.start is the Reader as the call found it.  After a call, rr.pc is
\* "idle", rr.last is what the call returned ("true" or "false"; "none"
\* before the first call), rr.record the record and rr.records the number of
\* calls that returned true
ReadStepsInit(file, checksum) ==
  rr = [r |-> NewReader(file, checksum, 0),
        pc |-> "idle",
        scratch |-> <<>>, in_fragmented_record |-> FALSE,
        prospective_record_offset |-> 0, fragment |-> <<>>,
        start |-> NewReader(file, checksum, 0),
        last |-> "none", record |-> <<>>, records |-> 0]

\* ReadRecord is called: up to its loop
RrCall ==
  /\ rr.pc = "idle"
  /\ rr' = [rr EXCEPT !.pc = "loop",
                      !.start = rr.r,
                      !.r = IF @.last_record_offset_ < @.initial_offset_
                            THEN SkipToInitialBlock(@) ELSE @,
                      !.scratch = <<>>, !.in_fragmented_record = FALSE,
                      !.prospective_record_offset = 0, !.fragment = <<>>]
  /\ UNCHANGED notReadSteps

\* ReadPhysicalRecord reads the next block and goes round its loop
RrRead ==
  /\ rr.pc = "loop"
  /\ Len(rr.r.buffer_) < kHeaderSize /\ ~rr.r.eof_
  /\ rr' = [rr EXCEPT !.r = ReadPhysicalRecord_Read(@)]
  /\ UNCHANGED notReadSteps

\* ReadPhysicalRecord returns and ReadRecord finishes the iteration of its
\* loop: it returns or goes round again
RrIterate ==
  LET Iterated(it) ==
        rr' = [rr EXCEPT !.r = it.r,
                         !.pc = IF it.returns THEN "idle" ELSE "loop",
                         !.scratch = it.scratch,
                         !.in_fragmented_record = it.in_fragmented_record,
                         !.prospective_record_offset = it.prospective_record_offset,
                         !.fragment = it.fragment,
                         !.last = IF ~it.returns THEN @
                                  ELSE IF it.ok THEN "true" ELSE "false",
                         !.record = IF it.returns THEN it.record ELSE @,
                         !.records = IF it.returns /\ it.ok THEN @ + 1 ELSE @]
  IN /\ rr.pc = "loop"
     /\ ~(Len(rr.r.buffer_) < kHeaderSize /\ ~rr.r.eof_)
     /\ Iterated(ReadRecordIteration(ReadPhysicalRecord(rr.r, rr.fragment),
                                     rr.scratch, rr.in_fragmented_record,
                                     rr.prospective_record_offset))
     /\ UNCHANGED notReadSteps

ReadStepsNext == RrCall \/ RrRead \/ RrIterate

\* a call that has returned did what ReadRecord does
StepsAgreeWithReadRecord ==
  (rr.pc = "idle" /\ rr.last # "none") =>
    LET res == Reader_ReadRecord(rr.start)
    IN /\ res.r = rr.r
       /\ res.ok = (rr.last = "true")
       /\ res.ok => res.record = rr.record

\* C40: on any finite log file, whether well-formed, truncated or
\* arbitrarily corrupted (including zero-filled regions and zero-length
\* records), every ReadRecord call terminates, and after finitely many calls
\* ReadRecord returns false and keeps returning false.
C40_ReadRecordEnds ==
  /\ (rr.pc = "loop") ~> (rr.pc = "idle")
  /\ <>[](rr.last = "false")

\* a log with a zero-length record and zeros after its end has been read to
\* its end: the record was returned, then false, and false again
C40_Witness ==
  /\ rr.pc = "idle"
  /\ rr.r.file_ = LogOfLens(NewWriter, <<0>>).dest_ \o Zeros(kBlockSize + 1)
  /\ rr.records = 1
  /\ rr.last = "false"
  /\ rr.start.eof_ /\ rr.start.buffer_ = <<>>

\* a log whose second block is zeros from its start, and a log cut inside a
\* header, read to their ends
C40_WitnessZeroBlock ==
  /\ rr.pc = "idle"
  /\ Len(rr.r.file_) > 2 * kBlockSize
  /\ \A i \in kBlockSize + 1 .. 2 * kBlockSize : rr.r.file_[i] = 0
  /\ rr.r.file_[2 * kBlockSize + 1] # 0
  /\ rr.last = "false"
  /\ rr.r.drops # <<>>

C40_WitnessCut ==
  /\ rr.pc = "idle"
  /\ Len(rr.r.file_) = kHeaderSize - 1
  /\ rr.last = "false"

(***************************************************************************)
(* Specifications                                                          *)
(***************************************************************************)
\* the units that are checked on their own, when not in use
DefaultKey == [user_key |-> <<>>, i |-> 1, type |-> kTypeValue]

DefaultFooter ==
  [metaindex_handle_ |-> [offset_ |-> 0, size_ |-> 0],
   index_handle_ |-> [offset_ |-> 0, size_ |-> 0]]

UnitInit ==
  /\ BlockInit(1) /\ LruInit(0) /\ LengthsInit(kBlockSize) /\ FooterInit(DefaultFooter)
  /\ CompareInit(DefaultKey, DefaultKey)
  /\ TwoLevelInit(<<>>) /\ FilterInit /\ FilterReadInit(<<>>) /\ WriteBlockInit(<<>>) /\ ReadBlockInit(<<>>, 0) /\ ReadStepsInit(<<>>, FALSE)

\* the cache used by any number of client threads
InitCache ==
  CacheInit /\ LogInit /\ SkipInit /\ MemInit /\ TableInit(DefaultTableOptions) /\ UnitInit

SpecCache == InitCache /\ [][CacheNext]_vars

\* a log is written, possibly damaged, and read back
InitLog ==
  NewCache(0) /\ LogInit /\ SkipInit /\ MemInit /\ TableInit(DefaultTableOptions) /\ UnitInit

SpecLog == InitLog /\ [][LogNext]_vars

\* a log is written and read back from any initial offset
SpecLogSeek == InitLog /\ [][LogSeekNext]_vars

\* one thread inserts into a skip list while another reads it
InitSkip ==
  NewCache(0) /\ LogInit /\ SkipInit /\ MemInit /\ TableInit(DefaultTableOptions) /\ UnitInit

SpecSkip == InitSkip /\ [][SkipNext]_vars

\* entries are added to a memtable and looked up
InitMem ==
  NewCache(0) /\ LogInit /\ SkipInit /\ MemInit /\ TableInit(DefaultTableOptions) /\ UnitInit

SpecMem == InitMem /\ [][MemNext]_vars

\* a table built with any of the options
InitTable ==
  /\ NewCache(0) /\ LogInit /\ SkipInit /\ MemInit /\ UnitInit
  /\ \E opt \in TableOptions : TableInit(opt)

SpecTable == InitTable /\ [][TableNext]_vars

\* a table built on a file of which one Append or Flush fails
InitTableIO ==
  /\ NewCache(0) /\ LogInit /\ SkipInit /\ MemInit /\ UnitInit
  /\ \E opt \in FailingTableOptions, ok \in 0 .. MaxFileOps : TableInitOn(opt, ok)

SpecTableIO == InitTableIO /\ [][TableNext]_vars

\* a table read through a block cache, one byte of a data block flipped
InitTableCache ==
  /\ NewCache(0) /\ LogInit /\ SkipInit /\ MemInit /\ UnitInit
  /\ \E opt \in CachedTableOptions : TableInit(opt)

SpecTableCache == InitTableCache /\ [][TableCacheNext]_vars

\* blocks built with any restart interval
InitBlock ==
  /\ NewCache(0) /\ LogInit /\ SkipInit /\ MemInit /\ TableInit(DefaultTableOptions)
  /\ \E interval \in 1 .. MaxRestartInterval : BlockInit(interval)
  /\ LruInit(0) /\ LengthsInit(kBlockSize) /\ FooterInit(DefaultFooter)
  /\ CompareInit(DefaultKey, DefaultKey)
  /\ TwoLevelInit(<<>>) /\ FilterInit /\ FilterReadInit(<<>>) /\ WriteBlockInit(<<>>) /\ ReadBlockInit(<<>>, 0) /\ ReadStepsInit(<<>>, FALSE)

SpecBlock == InitBlock /\ [][BlockNext]_vars


\* one client inserts two keys more than a shard holds and looks one key up
InitLru ==
  /\ NewCache(0) /\ LogInit /\ SkipInit /\ MemInit /\ TableInit(DefaultTableOptions)
  /\ BlockInit(1) /\ LengthsInit(kBlockSize) /\ FooterInit(DefaultFooter)
  /\ CompareInit(DefaultKey, DefaultKey)
  /\ LruInit(ShardCapacity)
  /\ TwoLevelInit(<<>>) /\ FilterInit /\ FilterReadInit(<<>>) /\ WriteBlockInit(<<>>) /\ ReadBlockInit(<<>>, 0) /\ ReadStepsInit(<<>>, FALSE)

SpecLru == InitLru /\ [][LruNext]_vars

\* payloads are appended to a fresh log with 32 KiB blocks
InitLengths ==
  /\ NewCache(0) /\ LogInit /\ SkipInit /\ MemInit /\ TableInit(DefaultTableOptions)
  /\ BlockInit(1) /\ LruInit(0) /\ FooterInit(DefaultFooter)
  /\ CompareInit(DefaultKey, DefaultKey)
  /\ LengthsInit(32 * 1024)
  /\ TwoLevelInit(<<>>) /\ FilterInit /\ FilterReadInit(<<>>) /\ WriteBlockInit(<<>>) /\ ReadBlockInit(<<>>, 0) /\ ReadStepsInit(<<>>, FALSE)

SpecLengths == InitLengths /\ [][LengthsNext]_vars

\* any footer is encoded, some of the bytes are overwritten, and it is decoded
InitFooter ==
  /\ NewCache(0) /\ LogInit /\ SkipInit /\ MemInit /\ TableInit(DefaultTableOptions)
  /\ BlockInit(1) /\ LruInit(0) /\ LengthsInit(kBlockSize)
  /\ CompareInit(DefaultKey, DefaultKey)
  /\ \E footer \in Footers : FooterInit(footer)
  /\ TwoLevelInit(<<>>) /\ FilterInit /\ FilterReadInit(<<>>) /\ WriteBlockInit(<<>>) /\ ReadBlockInit(<<>>, 0) /\ ReadStepsInit(<<>>, FALSE)

SpecFooter == InitFooter /\ [][FooterNext]_vars

\* any two internal keys are compared
InitCompare ==
  /\ NewCache(0) /\ LogInit /\ SkipInit /\ MemInit /\ TableInit(DefaultTableOptions)
  /\ BlockInit(1) /\ LruInit(0) /\ LengthsInit(kBlockSize) /\ FooterInit(DefaultFooter)
  /\ \E a \in ParsedKeys, b \in ParsedKeys : CompareInit(a, b)
  /\ TwoLevelInit(<<>>) /\ FilterInit /\ FilterReadInit(<<>>) /\ WriteBlockInit(<<>>) /\ ReadBlockInit(<<>>, 0) /\ ReadStepsInit(<<>>, FALSE)

SpecCompare == InitCompare /\ [][CompareNext]_vars

SpecLogCut == InitLog /\ [][LogCutNext]_vars

SpecLogFrames == InitLog /\ [][LogFramesNext]_vars

\* an iterator over any blocks, some of them empty, moved in any way
InitTwoLevel ==
  /\ NewCache(0) /\ LogInit /\ SkipInit /\ MemInit /\ TableInit(DefaultTableOptions)
  /\ BlockInit(1) /\ LruInit(0) /\ LengthsInit(kBlockSize) /\ FooterInit(DefaultFooter)
  /\ CompareInit(DefaultKey, DefaultKey) /\ FilterInit /\ FilterReadInit(<<>>) /\ WriteBlockInit(<<>>) /\ ReadBlockInit(<<>>, 0) /\ ReadStepsInit(<<>>, FALSE)
  /\ \E n \in 0 .. MaxIndexEntries :
       \E sizes \in [1 .. n -> 0 .. MaxDataEntries] : TwoLevelInit(sizes)

SpecTwoLevel == InitTwoLevel /\ [][TwoLevelNext]_vars

\* blocks are started at non-decreasing offsets and keys are added to them
InitFilter ==
  /\ NewCache(0) /\ LogInit /\ SkipInit /\ MemInit /\ TableInit(DefaultTableOptions)
  /\ BlockInit(1) /\ LruInit(0) /\ LengthsInit(kBlockSize) /\ FooterInit(DefaultFooter)
  /\ CompareInit(DefaultKey, DefaultKey) /\ TwoLevelInit(<<>>)
  /\ FilterInit /\ FilterReadInit(<<>>) /\ WriteBlockInit(<<>>) /\ ReadBlockInit(<<>>, 0) /\ ReadStepsInit(<<>>, FALSE)

SpecFilter == InitFilter /\ [][FilterNext]_vars

\* KeyMayMatch is called on a filter block of any of the contents above
InitFilterRead ==
  /\ NewCache(0) /\ LogInit /\ SkipInit /\ MemInit /\ TableInit(DefaultTableOptions)
  /\ BlockInit(1) /\ LruInit(0) /\ LengthsInit(kBlockSize) /\ FooterInit(DefaultFooter)
  /\ CompareInit(DefaultKey, DefaultKey) /\ TwoLevelInit(<<>>)
  /\ FilterInit /\ WriteBlockInit(<<>>) /\ ReadBlockInit(<<>>, 0) /\ ReadStepsInit(<<>>, FALSE)
  /\ \E contents \in FilterBlocks : FilterReadInit(contents)

SpecFilterRead == InitFilterRead /\ [][FilterReadNext]_vars

\* one block of any of these sizes is written with Snappy compression
InitWriteBlock ==
  /\ NewCache(0) /\ LogInit /\ SkipInit /\ MemInit /\ TableInit(DefaultTableOptions)
  /\ BlockInit(1) /\ LruInit(0) /\ LengthsInit(kBlockSize) /\ FooterInit(DefaultFooter)
  /\ CompareInit(DefaultKey, DefaultKey) /\ TwoLevelInit(<<>>)
  /\ FilterInit /\ FilterReadInit(<<>>) /\ ReadBlockInit(<<>>, 0) /\ ReadStepsInit(<<>>, FALSE)
  /\ \E len \in 0 .. MaxRawValue : WriteBlockInit([i \in 1 .. len |-> 2])

SpecWriteBlock == InitWriteBlock /\ [][WriteBlockNext]_vars

\* a block of any type, with a right or a wrong checksum, is read
InitReadBlock ==
  /\ NewCache(0) /\ LogInit /\ SkipInit /\ MemInit /\ TableInit(DefaultTableOptions)
  /\ BlockInit(1) /\ LruInit(0) /\ LengthsInit(kBlockSize) /\ FooterInit(DefaultFooter)
  /\ CompareInit(DefaultKey, DefaultKey) /\ TwoLevelInit(<<>>)
  /\ FilterInit /\ FilterReadInit(<<>>) /\ WriteBlockInit(<<>>)
  /\ ReadStepsInit(<<>>, FALSE)
  /\ \E data \in {<<>>, <<7>>, <<1, 7>>, <<2, 7, 7>>}, type \in 0 .. MaxBlockType,
        crc_ok \in BOOLEAN, lead \in {<<>>, <<9>>} :
        ReadBlockInit(lead \o StoredBlock(data, type, crc_ok), Len(lead))

SpecReadBlock == InitReadBlock /\ [][ReadBlockNext]_vars

\* ReadRecord is called again and again on a log file of any of the
\* contents above
InitReadSteps ==
  /\ NewCache(0) /\ LogInit /\ SkipInit /\ MemInit /\ TableInit(DefaultTableOptions)
  /\ BlockInit(1) /\ LruInit(0) /\ LengthsInit(kBlockSize) /\ FooterInit(DefaultFooter)
  /\ CompareInit(DefaultKey, DefaultKey) /\ TwoLevelInit(<<>>)
  /\ FilterInit /\ FilterReadInit(<<>>) /\ WriteBlockInit(<<>>)
  /\ ReadBlockInit(<<>>, 0)
  /\ \E file \in LogFiles, checksum \in BOOLEAN : ReadStepsInit(file, checksum)

SpecReadSteps == InitReadSteps /\ [][ReadStepsNext]_vars

\* the thread in ReadRecord runs, and its caller calls ReadRecord again
\* after every return
LiveReadSteps ==
  SpecReadSteps /\ WF_vars(RrRead) /\ WF_vars(RrIterate) /\ WF_vars(RrCall)

=========================================================================
